---- MODULE Spec2Model ----
(***************************************************************************)
(* Model of ogg_generator.py: the phase resolver, the Daily State          *)
(* derivation, the document builders' use of the shared random stream and  *)
(* the cadence scheduler run(num_days, output_root).                       *)
(***************************************************************************)
EXTENDS Integers, Sequences, FiniteSets, TLC

VARIABLES
    twister,        \* which generator the random module is (fixed for a process)
    rng,            \* the shared random stream: [seed, pos]
    num_days,       \* run's argument
    pc,             \* control point of run
    day,            \* run's loop variable
    state,          \* the DailyState of the current iteration
    frago_counter, ccir_counter, pir_counter, roe_version,
    last_phase, total_docs, day_docs,
    dirs_made,      \* os.makedirs done for the eight kinds
    files,          \* the documents saved so far, in emission order
    keep_bodies,    \* whether the record of a saved document keeps its body
    reported,       \* the COMPLETE line was printed
    execution,      \* 1 for the first call of run in the process, 2 for the second
    first_files,    \* what the first call of run saved
    q_day,          \* argument of the helper functions under test
    q_done,         \* the helper functions were applied to q_day
    q_phase,        \* get_phase(q_day)
    q_transition,   \* is_phase_transition(q_day)
    q_state         \* DailyState(q_day) built by a fresh process

vars == <<twister, rng, num_days, pc, day, state, frago_counter, ccir_counter,
          pir_counter, roe_version, last_phase, total_docs, day_docs, dirs_made,
          files, keep_bodies, reported, execution, first_files,
          q_day, q_done, q_phase, q_transition, q_state>>

runVars == <<twister, rng, num_days, pc, day, state, frago_counter, ccir_counter,
             pir_counter, roe_version, last_phase, total_docs, day_docs, dirs_made,
             files, keep_bodies, reported, execution, first_files>>

queryVars == <<q_day, q_done, q_phase, q_transition, q_state>>

----------------------------------------------------------------------------
(* Bounds of the model *)

\* run is called with num_days in -1..MaxDays
MaxDays == 34
\* the longest run, past the last declared phase end
LongDays == 1002
\* the helper functions are applied to the days 0..MaxQueryDay
MaxQueryDay == 1003
\* the generators considered: twister in 0..Twisters-1
Twisters == 2
\* the caller of the Daily State probes the days 0..MaxProbeDay (and two later ones)
MaxProbeDay == 3
\* and lets the shared stream run at most MaxDraws draws past a seeding
MaxDraws == 2
\* days 0..MaxMetricDay on which each metric formula is applied
MaxMetricDay == 420

----------------------------------------------------------------------------
(* CONFIGURATION *)

PHASES ==
    [p \in 1..4 |->
        CASE p = 1 -> [name |-> "Shape",              start |-> 0,   end |-> 30,  label |-> "I"]
          [] p = 2 -> [name |-> "Train and Secure",   start |-> 31,  end |-> 120, label |-> "II"]
          [] p = 3 -> [name |-> "Operate and Expand", start |-> 121, end |-> 270, label |-> "III"]
          [] p = 4 -> [name |-> "Transition",         start |-> 271, end |-> 999, label |-> "IV"]]

CCIR_INTERVAL == 3
PIR_INTERVAL == 3
GLOBAL_SEED == 42

----------------------------------------------------------------------------
(* HELPER FUNCTIONS *)

Min(a, b) == IF a <= b THEN a ELSE b
Max(a, b) == IF a >= b THEN a ELSE b

\* the loop of get_phase over PHASES.items(), from phase number p on
RECURSIVE PhaseScan(_, _)
PhaseScan(d, p) ==
    IF p > 4 THEN 4
    ELSE IF PHASES[p].start <= d /\ d <= PHASES[p].end THEN p
    ELSE PhaseScan(d, p + 1)

\* get_phase with the end of a range taken as exclusive
RECURSIVE PhaseScanEndExclusive(_, _)
PhaseScanEndExclusive(d, p) ==
    IF p > 4 THEN 4
    ELSE IF PHASES[p].start <= d /\ d < PHASES[p].end THEN p
    ELSE PhaseScanEndExclusive(d, p + 1)

get_phase_EndExclusive(d) == PhaseScanEndExclusive(d, 1)

get_phase(d) == PhaseScan(d, 1)

get_phase_info(d) == PHASES[get_phase(d)]

\* is_phase_transition testing the end of a range instead of its start
is_phase_transition_AtEnd(d) == \E p \in DOMAIN PHASES : PHASES[p].end = d

is_phase_transition(d) == \E p \in DOMAIN PHASES : PHASES[p].start = d

----------------------------------------------------------------------------
(* SCENARIO DATA POOLS *)

TARGET_POOL == <<
    \* <<TGT_ID, Name, Category, Base MGRS, CDE, Phase_available_from>>
    \* a coordinate string is the sequence of its whitespace-separated fields,
    \* a field the sequence of its characters
    <<"SLM-LOG-001", "Primary Weapons Cache (Border Region)", "LOGISTICS", <<<<"1", "7", "R">>, <<"N", "M">>, <<"4", "5", "2", "3">>, <<"7", "8">>>>, "LOW", 0>>,
    <<"SLM-LOG-002", "Cross-Border Smuggling LZ Alpha", "LOGISTICS", <<<<"1", "7", "R">>, <<"N", "M">>, <<"5", "6", "7", "8">>, <<"8", "9">>>>, "LOW", 0>>,
    <<"SLM-LOG-003", "Fuel/Supply Point (Scrubland East)", "LOGISTICS", <<<<"1", "7", "R">>, <<"N", "M">>, <<"4", "0", "1", "2">>, <<"7", "2">>>>, "LOW", 0>>,
    <<"SLM-LOG-004", "IED/Demolitions Workshop", "LOGISTICS", <<<<"1", "7", "R">>, <<"N", "M">>, <<"3", "6", "7", "8">>, <<"6", "8">>>>, "MOD", 0>>,
    <<"SLM-LOG-005", "Safe House Network (Company Town 3)", "LOGISTICS", <<<<"1", "7", "R">>, <<"N", "M">>, <<"3", "5", "0", "0">>, <<"7", "1">>>>, "HIGH", 0>>,
    <<"SLM-LOG-006", "Secondary Weapons Cache (Swamp Edge)", "LOGISTICS", <<<<"1", "7", "R">>, <<"N", "M">>, <<"3", "1", "0", "0">>, <<"6", "5">>>>, "LOW", 15>>,
    <<"SLM-LOG-007", "Smuggling LZ Bravo (Coastal Relay)", "LOGISTICS", <<<<"1", "7", "R">>, <<"N", "M">>, <<"5", "8", "9", "0">>, <<"9", "1">>>>, "LOW", 10>>,
    <<"SLM-LOG-008", "Medical Supply Cache", "LOGISTICS", <<<<"1", "7", "R">>, <<"N", "M">>, <<"3", "3", "4", "5">>, <<"6", "9">>>>, "MOD", 30>>,
    <<"SLM-LOG-009", "Vehicle Staging Area", "LOGISTICS", <<<<"1", "7", "R">>, <<"N", "M">>, <<"4", "2", "0", "0">>, <<"7", "4">>>>, "LOW", 45>>,
    <<"SLM-LOG-010", "Boat Cache (River Junction)", "LOGISTICS", <<<<"1", "7", "R">>, <<"N", "M">>, <<"2", "8", "0", "0">>, <<"6", "2">>>>, "LOW", 20>>,
    <<"SLM-C2-001", "Regional Commander CP (Swamp Central)", "C2", <<<<"1", "7", "R">>, <<"N", "M">>, <<"3", "4", "5", "6">>, <<"6", "7">>>>, "LOW", 0>>,
    <<"SLM-C2-002", "Communications Relay (Hill 247)", "C2", <<<<"1", "7", "R">>, <<"N", "M">>, <<"3", "8", "9", "0">>, <<"7", "0">>>>, "LOW", 0>>,
    <<"SLM-C2-003", "Finance/Funding Cell (Arcadia)", "C2", <<<<"1", "7", "R">>, <<"N", "M">>, <<"3", "2", "1", "0">>, <<"6", "5">>>>, "HIGH", 0>>,
    <<"SLM-C2-004", "Alternate CP (Scrubland North)", "C2", <<<<"1", "7", "R">>, <<"N", "M">>, <<"3", "7", "8", "0">>, <<"7", "2">>>>, "LOW", 40>>,
    <<"SLM-C2-005", "Courier Network Hub", "C2", <<<<"1", "7", "R">>, <<"N", "M">>, <<"3", "5", "6", "0">>, <<"6", "8">>>>, "MOD", 25>>,
    <<"SLM-INF-001", "Propaganda Media Center (Arcadia Urban)", "INFO OPS", <<<<"1", "7", "R">>, <<"N", "M">>, <<"3", "2", "0", "0">>, <<"6", "5">>>>, "HIGH", 0>>,
    <<"SLM-INF-002", "Social Media Operations Cell", "INFO OPS", <<<<"1", "7", "R">>, <<"N", "M">>, <<"3", "2", "5", "0">>, <<"6", "4">>>>, "HIGH", 0>>,
    <<"SLM-INF-003", "Underground Print Shop (Company Town 7)", "INFO OPS", <<<<"1", "7", "R">>, <<"N", "M">>, <<"3", "4", "0", "0">>, <<"6", "6">>>>, "MOD", 20>>,
    <<"SLM-TRN-001", "Training Camp Alpha (Deep Swamp)", "FORCE", <<<<"1", "7", "R">>, <<"N", "M">>, <<"2", "8", "9", "0">>, <<"6", "2">>>>, "LOW", 0>>,
    <<"SLM-TRN-002", "Training Camp Bravo (Scrubland West)", "FORCE", <<<<"1", "7", "R">>, <<"N", "M">>, <<"2", "5", "6", "0">>, <<"6", "7">>>>, "LOW", 0>>,
    <<"SLM-TRN-003", "Recruit Assembly Point (Lake Region)", "FORCE", <<<<"1", "7", "R">>, <<"N", "M">>, <<"2", "7", "0", "0">>, <<"6", "4">>>>, "LOW", 35>>,
    <<"SLM-SAB-001", "Corridor Sabotage Cell (KM 30-50)", "FORCE", <<<<"1", "7", "R">>, <<"N", "M">>, <<"3", "9", "0", "0">>, <<"7", "5">>>>, "LOW", 5>>,
    <<"SLM-SAB-002", "Corridor Sabotage Cell (KM 80-100)", "FORCE", <<<<"1", "7", "R">>, <<"N", "M">>, <<"4", "1", "0", "0">>, <<"7", "8">>>>, "LOW", 5>>,
    <<"SLM-SAB-003", "Bridge Assault Team (Rio Verde Bridge)", "FORCE", <<<<"1", "7", "R">>, <<"N", "M">>, <<"4", "3", "0", "0">>, <<"8", "0">>>>, "MOD", 15>>,
    <<"SLM-MAR-001", "Port Manatee Sleeper Cell", "FORCE", <<<<"1", "7", "R">>, <<"N", "M">>, <<"5", "5", "0", "0">>, <<"8", "8">>>>, "HIGH", 30>>,
    <<"SLM-CYB-001", "Cyber Operations Cell (Unknown Location)", "C2", <<<<"1", "7", "R">>, <<"N", "M">>, <<"3", "2", "0", "0">>, <<"6", "5">>>>, "HIGH", 60>> >>

MISSION_TYPES_ISR == <<
    <<"SHADOW", "MQ-1C", "UAS PLT/SOTF-K", "ISR">>,
    <<"RAVEN", "RQ-20B", "SOTF-C", "ISR">>,
    <<"PUMA", "RQ-11B", "CATF", "ISR">>,
    <<"SCAN EAGLE", "RQ-21A", "SOTF-K", "ISR">> >>

MISSION_TYPES_SUPPORT == <<
    <<"DUSTOFF", "UH-60M", "MEDEVAC DET", "MEDEVAC">>,
    <<"ATLAS", "C-146A", "AFSOC DET", "AIRLIFT">>,
    <<"TALON", "MC-130J", "AFSOC DET", "INFILTRATION">>,
    <<"NIGHTHAWK", "MH-60M", "160th SOAR DET", "ASSAULT SUPPORT">> >>

ISR_AREAS == <<
    "CORRIDOR NORTH (COR-N)",
    "CORRIDOR SOUTH (COR-S)",
    "SWAMP CENTRAL (SWP-C)",
    "BORDER EAST (BDR-E)",
    "BORDER WEST (BDR-W)",
    "ARCADIA URBAN (ARC-U)",
    "PORT MANATEE APPROACH (PM-A)",
    "SCRUBLAND NORTH (SCR-N)",
    "SCRUBLAND SOUTH (SCR-S)",
    "LAKE REGION (LK-R)",
    "RIVER JUNCTION (RVR-J)",
    "COMPANY TOWN CLUSTER (CT-C)" >>

EVENTS_POOL == <<
    \* <<day_trigger_min, day_trigger_max, event_text, impact_type>>
    <<1, 5, "SLM propaganda leaflets distributed in Company Town 2", "INFO">>,
    <<2, 8, "HNSF tip-line reports SLM movement near KM 45 of corridor", "INTEL">>,
    <<3, 10, "Small arms fire exchanged between HNSF patrol and SLM cell near the swamp edge", "CONTACT">>,
    <<5, 15, "IED discovered and neutralized on rail line at KM 67", "SABOTAGE">>,
    <<7, 20, "SLM propaganda video posted on social media showing staged attack", "INFO">>,
    <<8, 25, "HUMINT source reports SLM planning meeting in Scrubland East", "INTEL">>,
    <<10, 30, "Cross-border smuggling boat interdicted by HNSF Border Guard; weapons recovered", "INTERDICTION">>,
    <<12, 35, "CA team conducts well-digging project in Company Town 4; positive reception", "CIVIL">>,
    <<15, 40, "SLM ambush of CSG patrol near KM 92; 2x HNSF WIA, SLM repelled", "CONTACT">>,
    <<18, 50, "Radio Solara Libre begins broadcasting; initial listener metrics positive", "INFO">>,
    <<20, 55, "First SLM defector surrenders via amnesty program; debriefed by J-2", "INTEL">>,
    <<25, 60, "CUAS system detects and defeats hostile drone near Camp Citrus", "CUAS">>,
    <<30, 70, "Swamp Rangers conduct first independent patrol; no contact", "HNSF_PROGRESS">>,
    <<35, 80, "SLM attacks citrus processing plant in Sector 3; minimal damage", "SABOTAGE">>,
    <<40, 90, "Second amnesty defector provides SLM OOB information", "INTEL">>,
    <<45, 100, "CSG interdicts SLM sabotage cell preparing to attack Rio Verde Bridge", "INTERDICTION">>,
    <<50, 110, "SLM cyber intrusion detected on HNSF email server; isolated and eradicated", "CYBER">>,
    <<60, 130, "Swamp Rangers clear SLM camp; 12 SLM detained by HNSF", "CLEARING">>,
    <<75, 150, "SLM corridor attacks decrease 40% from baseline", "PROGRESS">>,
    <<90, 180, "GoS announces land reform pilot program for Grove Laborers", "CIVIL">>,
    <<100, 200, "SLM VIPER (supreme commander) communicates frustration to foreign sponsor per SIGINT", "INTEL">>,
    <<120, 240, "HNSF conducts first fully independent corridor security rotation", "HNSF_PROGRESS">>,
    <<150, 270, "SLM recruitment rate down estimated 60% per HUMINT", "PROGRESS">>,
    <<200, 300, "SLM offers ceasefire negotiations through intermediary", "DIPLOMATIC">>,
    <<250, 350, "GoS Ministry of Information assumes lead for Radio Solara Libre", "TRANSITION">> >>


----------------------------------------------------------------------------
(* The random module.  The stream is [seed, pos]: the seed it was last      *)
(* seeded with and the number of draws taken since.  A draw is a function  *)
(* of the generator and of the stream state, and of nothing else.          *)

Word(s, p) ==
    (s * s * 31 + s * 1009 + p * p * 17 + p * 7919 + s * p * 13
       + twister * 104729 + ((s + p + twister) % 7) * 523) % 65521

seed(a) == [seed |-> a, pos |-> 0]

\* the stream after k draws
Skip(r, k) == [r EXCEPT !.pos = @ + k]

\* random._randbelow(n) on stream r
randbelow(r, n) == (Word(r.seed, r.pos) \div 3) % n

\* random.randint(a, b) on stream r: one draw
randint(r, a, b) == a + randbelow(r, b - a + 1)

\* random.choice(seq) on stream r: one draw
choice(r, s) == s[1 + randbelow(r, Len(s))]

\* random.sample(population, k) on stream r: k draws from a shrinking pool
RECURSIVE SamplePool(_, _, _, _)
SamplePool(r, pool, k, result) ==
    IF k = 0 THEN result
    ELSE LET n == Len(pool)
             j == 1 + randbelow(r, n)
         IN  SamplePool(Skip(r, 1),
                        SubSeq([pool EXCEPT ![j] = pool[n]], 1, n - 1),
                        k - 1,
                        Append(result, pool[j]))

sample(r, population, k) == SamplePool(r, population, k, <<>>)

\* random.shuffle(x) on stream r: Len(x) - 1 draws, i from the last index down
RECURSIVE ShuffleFrom(_, _, _)
ShuffleFrom(r, x, i) ==
    IF i <= 1 THEN x
    ELSE LET j == 1 + randbelow(r, i)
         IN  ShuffleFrom(Skip(r, 1), [x EXCEPT ![i] = x[j], ![j] = x[i]], i - 1)

shuffle(r, x) == ShuffleFrom(r, x, Len(x))

ShuffleDraws(x) == IF Len(x) = 0 THEN 0 ELSE Len(x) - 1

Range(s) == {s[i] : i \in DOMAIN s}

----------------------------------------------------------------------------
(* DAILY STATE ENGINE *)

\* str(n) for n >= 0, one character per element
RECURSIVE Digits(_)
Digits(n) ==
    LET c == <<"0", "1", "2", "3", "4", "5", "6", "7", "8", "9">>[(n % 10) + 1]
    IN  IF n < 10 THEN <<c>> ELSE Append(Digits(n \div 10), c)

\* f"{n:0wd}" for n >= 0: at least w characters, zeros in front
ZeroPad(n, w) == [i \in 1..(w - Len(Digits(n))) |-> "0"] \o Digits(n)

\* f"{n:0wd}" of any integer: the sign counts in the width
format_d(n, w) == IF n < 0 THEN <<"-">> \o ZeroPad(-n, w - 1) ELSE ZeroPad(n, w)

DIGIT_CHARS == {"0", "1", "2", "3", "4", "5", "6", "7", "8", "9"}

\* the text of an integer literal after its sign
Unsigned(s) == IF s # <<>> /\ s[1] \in {"+", "-"} THEN Tail(s) ELSE s

\* int(s) raises ValueError: s is not an optional sign followed by digits,
\* single underscores allowed between digits
ValueError(s) ==
    LET u == Unsigned(s)
    IN  \/ u = <<>>
        \/ \E i \in 1..Len(u) : u[i] \notin DIGIT_CHARS \cup {"_"}
        \/ u[1] = "_"
        \/ u[Len(u)] = "_"
        \/ \E i \in 1..(Len(u) - 1) : u[i] = "_" /\ u[i + 1] = "_"

\* the value of a run of digits and grouping underscores
RECURSIVE DigitsValue(_)
DigitsValue(u) ==
    IF u = <<>> THEN 0
    ELSE LET c    == u[Len(u)]
             rest == SubSeq(u, 1, Len(u) - 1)
         IN  IF c = "_" THEN DigitsValue(rest)
             ELSE 10 * DigitsValue(rest) + (CHOOSE v \in 0..9 : Digits(v) = <<c>>)

\* int(s) of a string that int() accepts
int(s) == IF s[1] = "-" THEN 0 - DigitsValue(Unsigned(s)) ELSE DigitsValue(Unsigned(s))

\* datetimes are hours since 2026-01-20 00:00Z; BASE_DATE is 06:00 that day
BASE_DATE == 6

day_date(day_offset) == BASE_DATE + 24 * day_offset

\* slm_strength without its floor
slm_strength_NoFloor(d, noise) == 3000 - ((d * 65) \div 10) + noise

\* the six metrics, each from the day and its noise draw
slm_strength(d, noise) == Max(500, 3000 - ((d * 65) \div 10) + noise)
hnsf_readiness(d, noise) == Min(95, 35 + ((d * 18) \div 100) + noise)
corridor_threat(d, noise) == Max(1, 10 - ((d * 2) \div 100) + noise)
popular_support_gos(d, noise) == Min(80, 30 + ((d * 14) \div 100) + noise)
tip_line_calls(d, noise) == Max(0, ((d * 8) \div 10) + noise)
amnesty_surrenders(d, noise) == Max(0, ((d * 15) \div 100) + noise)

\* the filter without the upper end of the window
candidate_events_StartedOnly(d) ==
    LET Started(e) == e[1] <= d
    IN  SelectSeq(EVENTS_POOL, Started)

\* [e for e in EVENTS_POOL if e[0] <= day <= e[1]]
candidate_events(d) ==
    LET InWindow(e) == e[1] <= d /\ d <= e[2]
    IN  SelectSeq(EVENTS_POOL, InWindow)

\* today's events, drawn from stream r (the stream after the six metric draws)
select_events(d, r) ==
    LET cands == candidate_events(d)
    IN  IF Len(cands) > 0
        THEN sample(Skip(r, 1), cands, Min(Len(cands), randint(r, 1, 3)))
        ELSE cands

\* the draws lines 275-276 take from stream r: the count, then the sample
event_draws(d, r) ==
    LET cands == candidate_events(d)
    IN  IF Len(cands) > 0 THEN 1 + Min(Len(cands), randint(r, 1, 3)) ELSE 0

\* [t for t in TARGET_POOL if t[5] <= day]
available_targets(d) ==
    LET Avail(t) == t[6] <= d
    IN  SelectSeq(TARGET_POOL, Avail)

\* neutralized_count leaving one candidate fewer
neutralized_count_Floor4(d) == Min(Len(available_targets(d)) - 4, (d * 3) \div 100)

neutralized_count(d) == Min(Len(available_targets(d)) - 5, (d * 3) \div 100)

\* the neutralized sample drawn from the shared stream instead of the day's
neutralized_ids_Ambient(d, r) ==
    IF neutralized_count(d) > 0
    THEN {t[1] : t \in Range(sample(Skip(rng, 6), available_targets(d), neutralized_count(d)))}
    ELSE {}

\* the ids drawn by random.sample(available, neutralized_count) on stream r
neutralized_ids(d, r) ==
    IF neutralized_count(d) > 0
    THEN {t[1] : t \in Range(sample(r, available_targets(d), neutralized_count(d)))}
    ELSE {}

neutralized_draws(d) == IF neutralized_count(d) > 0 THEN neutralized_count(d) ELSE 0

\* active_targets with the neutralized targets left in
surviving_targets_KeepsNeutralized(d, r) == available_targets(d)

\* [t for t in available if t[0] not in neutralized_ids], before the shuffle
surviving_targets(d, r) ==
    LET gone == neutralized_ids(d, r)
        Alive(t) == t[1] \notin gone
    IN  SelectSeq(available_targets(d), Alive)

\* one ISR mission: the i-th area, its four draws taken from stream r
isr_mission(d, r, i, area) ==
    LET platform == choice(r, MISSION_TYPES_ISR)
        start_hr == randint(Skip(r, 2), 6, 10)
        end_hr   == start_hr + randint(Skip(r, 3), 4, 12)
    IN  [msn_num     |-> <<"ATO-">> \o ZeroPad(i, 3),
         callsign    |-> <<platform[1], randint(Skip(r, 1), 1, 99)>>,
         acft        |-> platform[2],
         unit        |-> platform[3],
         msn_type    |-> platform[4],
         target_area |-> area,
         tot         |-> <<day_date(d) + start_hr, day_date(d) + Min(end_hr, 23)>>,
         remarks     |-> "ISR coverage"]

\* one standing support mission (DUSTOFF, ATLAS): one draw from stream r
support_mission(d, r, i, sup) ==
    [msn_num     |-> <<"ATO-">> \o ZeroPad(i, 3),
     callsign    |-> <<sup[1], randint(r, 1, 20)>>,
     acft        |-> sup[2],
     unit        |-> sup[3],
     msn_type    |-> sup[4],
     target_area |-> "CAMP CITRUS / JOA-WIDE",
     tot         |-> <<day_date(d), day_date(d) + 18>>,
     remarks     |-> IF sup[4] = "MEDEVAC" THEN "Standing mission" ELSE "Resupply run"]

\* the phase-dependent extra mission: four draws from stream r
extra_mission(d, r, i) ==
    LET extra == choice(r, SubSeq(MISSION_TYPES_SUPPORT, 3, 4))
    IN  [msn_num     |-> <<"ATO-">> \o ZeroPad(i, 3),
         callsign    |-> <<extra[1], randint(Skip(r, 1), 1, 20)>>,
         acft        |-> extra[2],
         unit        |-> extra[3],
         msn_type    |-> extra[4],
         target_area |-> choice(Skip(r, 2), SubSeq(ISR_AREAS, 1, 3)),
         tot         |-> <<day_date(d) + randint(Skip(r, 3), 1, 6)>>,
         remarks     |-> "HNSF-led operation support"]

\* the number of ISR areas drawn from 3..7
isr_count_From3(r) == Min(Len(ISR_AREAS), randint(r, 3, 7))

\* number of ISR areas drawn on stream r
isr_count(r) == Min(Len(ISR_AREAS), randint(r, 4, 7))

\* DailyState._generate_ato_missions, its draws taken from stream r
generate_ato_missions(d, phase, r) ==
    LET k     == isr_count(r)
        areas == sample(Skip(r, 1), ISR_AREAS, k)
        isr   == [i \in 1..k |-> isr_mission(d, Skip(r, 1 + k + 4 * (i - 1)), i, areas[i])]
        rs    == Skip(r, 1 + 5 * k)
        sup   == [j \in 1..2 |->
                     support_mission(d, Skip(rs, j - 1), k + j, MISSION_TYPES_SUPPORT[j])]
    IN  IF phase >= 3
        THEN isr \o sup \o <<extra_mission(d, Skip(rs, 2), k + 3)>>
        ELSE isr \o sup

\* the draws _generate_ato_missions takes
mission_draws(phase, r) == 1 + 5 * isr_count(r) + 2 + (IF phase >= 3 THEN 4 ELSE 0)

\* DailyState(day), constructed while the shared stream is r
DailyState(d, r) ==
    LET day_stream == seed(GLOBAL_SEED + d)
        survivors  == surviving_targets(d, day_stream)
        r_shuffle  == Skip(day_stream, neutralized_draws(d))
        active     == shuffle(r_shuffle, survivors)
        r_cut      == Skip(r_shuffle, ShuffleDraws(survivors))
        n_above    == Min(Len(active), randint(r_cut, 6, 10))
        r_msn      == Skip(r_cut, 1)
        r_acm      == Skip(r_msn, mission_draws(get_phase(d), r_msn))
        todays     == select_events(d, Skip(r, 6))
    IN  [day                 |-> d,
         date                |-> day_date(d),
         eff                 |-> day_date(d),
         end                 |-> day_date(d) + 18,
         phase               |-> get_phase(d),
         phase_label         |-> get_phase_info(d).label,
         phase_name          |-> get_phase_info(d).name,
         slm_strength        |-> slm_strength(d, randint(r, -100, 100)),
         hnsf_readiness      |-> hnsf_readiness(d, randint(Skip(r, 1), -5, 5)),
         corridor_threat     |-> corridor_threat(d, randint(Skip(r, 2), -1, 1)),
         popular_support_gos |-> popular_support_gos(d, randint(Skip(r, 3), -3, 3)),
         tip_line_calls      |-> tip_line_calls(d, randint(Skip(r, 4), -5, 10)),
         amnesty_surrenders  |-> amnesty_surrenders(d, randint(Skip(r, 5), -2, 3)),
         events              |-> todays,
         event_texts         |-> [i \in 1..Len(todays) |-> todays[i][3]],
         active_targets      |-> active,
         jiptl_above_cut     |-> SubSeq(active, 1, n_above),
         jiptl_below_cut     |-> SubSeq(active, n_above + 1, Len(active)),
         ato_missions        |-> generate_ato_missions(d, get_phase(d), r_msn),
         acm_count           |-> randint(r_acm, 6, 10),
         fscm_count          |-> randint(Skip(r_acm, 1), 5, 8)]

\* the shared stream when the constructor returns: random.seed(42)
stream_after_state == seed(GLOBAL_SEED)

NoState == [day |-> -1]

----------------------------------------------------------------------------
(* DOCUMENT GENERATORS.  A saved document is a record: its kind, its file   *)
(* name (the values formatted into it), its serial and what of its content *)
(* varies.  Each generator reads the Daily State st, its counter and, when *)
(* it draws, the shared stream r.                                          *)

\* name.replace(' ', '_') on the phase names
replace_spaces(name) ==
    CASE name = "Train and Secure"   -> "Train_and_Secure"
      [] name = "Operate and Expand" -> "Operate_and_Expand"
      [] OTHER                       -> name

\* the exceptions the except clause of line 242 catches
jitter_caught_IndexOnly == {"IndexError"}

jitter_caught == {"ValueError", "IndexError"}

\* the exception the try body of lines 239-241 raises on the fields parts
jitter_error(parts) ==
    IF ValueError(parts[3]) \/ ValueError(parts[4]) THEN "ValueError" ELSE "none"

\* jitter_mgrs(base_mgrs) ends in an exception
jitter_raises(base_mgrs) ==
    /\ Len(base_mgrs) >= 4
    /\ jitter_error(base_mgrs) \notin (jitter_caught \cup {"none"})

\* jitter_mgrs(base_mgrs) when it returns, its draws taken from stream r
jitter_mgrs(base_mgrs, r) ==
    LET parts == base_mgrs
    IN  IF Len(parts) >= 4 /\ jitter_error(parts) = "none"
        THEN LET e == int(parts[3]) + randint(r, -50, 50)
                 n == int(parts[4]) + randint(Skip(r, 1), -50, 50)
             IN  <<parts[1], parts[2], format_d(e, 4), format_d(n, 2)>>
        ELSE base_mgrs

\* the draws it takes: one after each field that int() accepted
jitter_draws(base_mgrs) ==
    IF Len(base_mgrs) >= 4 /\ ~ValueError(base_mgrs[3])
    THEN IF ValueError(base_mgrs[4]) THEN 1 ELSE 2
    ELSE 0

\* the phase-keyed tables of generate_opord, each entry by its opening words
mission_verbs ==
    [p \in 1..4 |->
        <<"establishes the JTF", "conducts intensive HNSF training",
          "conducts HNSF-led clearing operations", "transitions security lead to HNSF">>[p]]

intents ==
    [p \in 1..4 |->
        <<"Establish advisory relationships", "Build HNSF capacity",
          "Press the advantage", "Ensure HNSF sustainability">>[p]]

main_efforts ==
    [p \in 1..4 |->
        <<"LOE 1 (Develop HNSF)", "LOE 2 (Secure Corridor)", "LOE 3 (Counter SLM)",
          "LOE 1 (Sustain HNSF)">>[p]]

\* tasks[phase]: the task of SOTF-C, first of the five units
tasks ==
    [p \in 1..4 |->
        <<"Conduct initial assessment of Solaran Army units",
          "Conduct intensive Swamp Rangers training",
          "MAIN EFFORT. Advise and accompany Swamp Rangers",
          "Transition Swamp Rangers to independent operations">>[p]]

\* table[key] on a dict without the key: the builder raises, nothing is saved
KeyError(table, key) ==
    [kind |-> "KeyError", fname |-> <<>>, num |-> key, day |-> -1, body |-> [table |-> table]]

\* table.get(key, default)
DictGet(table, key, default) == IF key \in DOMAIN table THEN table[key] ELSE default

generate_opord(st) ==
    IF st.phase \notin DOMAIN mission_verbs THEN KeyError("mission_verbs", st.phase)
    ELSE IF st.phase \notin DOMAIN intents THEN KeyError("intents", st.phase)
    ELSE IF st.phase \notin DOMAIN main_efforts THEN KeyError("main_efforts", st.phase)
    ELSE IF st.phase \notin DOMAIN tasks THEN KeyError("tasks", st.phase)
    ELSE
    [kind  |-> "OPORD",
     fname |-> <<"OPORD_">> \o ZeroPad(st.phase, 3)
                  \o <<"-26_Phase_", st.phase_label, "_", replace_spaces(st.phase_name), ".docx">>,
     num   |-> st.phase,
     day   |-> st.day,
     body  |-> [prior_opord |-> IF st.phase > 1 THEN st.phase - 1 ELSE 0,
                mission     |-> mission_verbs[st.phase],
                intent      |-> intents[st.phase],
                main_effort |-> main_efforts[st.phase],
                tasks       |-> tasks[st.phase]]]

generate_roe(st, version) ==
    [kind  |-> "ROE",
     fname |-> <<"ROE_V">> \o ZeroPad(version, 2)
                  \o <<"_Phase_", st.phase_label, "_", replace_spaces(st.phase_name), ".docx">>,
     num   |-> version,
     day   |-> st.day,
     body  |-> [phase |-> st.phase]]

\* one pass of the loop of lines 580-600: the task change of one event
task_change_CivilGeneric(evt, st) ==
    CASE evt[4] = "CONTACT" -> <<"SOTF-K: Increase CSG patrol frequency in sector of contact. Surge ISR to affected area.">>
      [] evt[4] = "SABOTAGE" -> <<"SOTF-K: Coordinate with HNSF engineers for rapid repair. Adjust CSG patrol pattern to cover vulnerability.">>
      [] evt[4] = "INTEL" -> <<"J-2: Develop intelligence lead. Nominate for ISR collection on next ATO cycle.">>
      [] evt[4] = "INTERDICTION" -> <<"SOTF-B: Exploit captured material. Update border interdiction priorities.">>
      [] evt[4] = "INFO" -> <<"MISTF: Develop counter-narrative. Coordinate with Radio Solara Libre for broadcast.">>
      [] evt[4] = "CUAS" -> <<"J-3: Review CUAS posture at all FOBs. Report hostile UAS characteristics to J-2 for analysis.">>
      [] evt[4] = "CYBER" -> <<"J-6/DCO: Elevate network monitoring. Implement recommended OPSEC changes.">>
      [] evt[4] = "CLEARING" -> <<"SOTF-C: Exploit site for intelligence. Coordinate with J-2 for detainee processing via HNSF.">>
      [] OTHER -> <<"All units: Continue Phase ", st.phase_label, " operations as directed.">>

task_change(evt, st) ==
    CASE evt[4] = "CONTACT" -> <<"SOTF-K: Increase CSG patrol frequency in sector of contact. Surge ISR to affected area.">>
      [] evt[4] = "SABOTAGE" -> <<"SOTF-K: Coordinate with HNSF engineers for rapid repair. Adjust CSG patrol pattern to cover vulnerability.">>
      [] evt[4] = "INTEL" -> <<"J-2: Develop intelligence lead. Nominate for ISR collection on next ATO cycle.">>
      [] evt[4] = "INTERDICTION" -> <<"SOTF-B: Exploit captured material. Update border interdiction priorities.">>
      [] evt[4] = "INFO" -> <<"MISTF: Develop counter-narrative. Coordinate with Radio Solara Libre for broadcast.">>
      [] evt[4] = "CUAS" -> <<"J-3: Review CUAS posture at all FOBs. Report hostile UAS characteristics to J-2 for analysis.">>
      [] evt[4] = "CYBER" -> <<"J-6/DCO: Elevate network monitoring. Implement recommended OPSEC changes.">>
      [] evt[4] = "CLEARING" -> <<"SOTF-C: Exploit site for intelligence. Coordinate with J-2 for detainee processing via HNSF.">>
      [] evt[4] = "CIVIL" -> <<"CATF: Continue engagement. Report atmospherics to J-2 and MISTF.">>
      [] OTHER -> <<"All units: Continue Phase ", st.phase_label, " operations as directed.">>

\* the task_changes list of lines 578-603
task_changes(st) ==
    LET per_event == [i \in 1..Len(st.events) |-> task_change(st.events[i], st)]
    IN  IF per_event = <<>>
        THEN << <<"No changes. Continue Phase ", st.phase_label, " operations IAW OPORD ">>
                \o ZeroPad(st.phase, 3) \o <<"-26.">> >>
        ELSE per_event

generate_frago(st, frago_num, r) ==
    [kind  |-> "FRAGO",
     fname |-> <<"FRAGO_">> \o ZeroPad(frago_num, 4) \o <<"-26_Day_">>
                  \o ZeroPad(st.day + 1, 3) \o <<".docx">>,
     num   |-> frago_num,
     day   |-> st.day,
     body  |-> [opord               |-> st.phase,
                ato                 |-> st.day + 1,
                aco                 |-> st.day + 1,
                jiptl               |-> st.day + 1,
                slm_strength        |-> st.slm_strength,
                corridor_threat     |-> st.corridor_threat,
                hnsf_readiness      |-> st.hnsf_readiness,
                popular_support_gos |-> st.popular_support_gos,
                event_texts         |-> st.event_texts,
                tip_line_calls      |-> Max(0, st.tip_line_calls + randint(r, -3, 3)),
                amnesty_surrenders  |-> st.amnesty_surrenders,
                task_changes        |-> task_changes(st),
                ccir_updated        |-> (st.day % CCIR_INTERVAL = 0)]]

\* the shared stream when generate_frago returns: one draw taken
stream_after_frago(r) == Skip(r, 1)

\* the ATO numbered by the day offset instead of the ATO day
generate_ato_ZeroBased(st) ==
    [kind  |-> "ATO",
     fname |-> <<"ATO_">> \o ZeroPad(st.day, 3) \o <<"-26_Day_">>
                  \o ZeroPad(st.day, 3) \o <<".docx">>,
     num   |-> st.day,
     day   |-> st.day,
     body  |-> [opord           |-> st.phase,
                aco             |-> st.day + 1,
                corridor_threat |-> st.corridor_threat,
                hnsf_readiness  |-> st.hnsf_readiness,
                missions        |-> st.ato_missions]]

generate_ato(st) ==
    [kind  |-> "ATO",
     fname |-> <<"ATO_">> \o ZeroPad(st.day + 1, 3) \o <<"-26_Day_">>
                  \o ZeroPad(st.day + 1, 3) \o <<".docx">>,
     num   |-> st.day + 1,
     day   |-> st.day,
     body  |-> [opord           |-> st.phase,
                aco             |-> st.day + 1,
                corridor_threat |-> st.corridor_threat,
                hnsf_readiness  |-> st.hnsf_readiness,
                missions        |-> st.ato_missions]]

ACM_TYPES == <<"ROZ", "UA", "HIDACZ", "ACA">>
ACM_NAMES == 10
FSCM_DATA == 8

\* the ACM rows of generate_aco from the idx-th selected index on, stream r
RECURSIVE AcmRows(_, _, _)
AcmRows(selected, idx, r) ==
    IF idx > Len(selected) THEN <<>>
    ELSE LET sel      == selected[idx]
             acm_type == ACM_TYPES[(sel % Len(ACM_TYPES)) + 1]
             fixed    == acm_type \in {"ROZ", "HIDACZ", "ACA"}
             agency   == IF fixed THEN "JTF JOC"
                         ELSE choice(r, <<"SOTF-C", "SOTF-K", "SOTF-B", "CATF">>)
         IN  <<[acm |-> idx, type |-> acm_type, name |-> sel, agency |-> agency]>>
             \o AcmRows(selected, idx + 1, IF fixed THEN r ELSE Skip(r, 1))

generate_aco(st) ==
    LET r        == seed(GLOBAL_SEED + st.day)
        n_acms   == Min(st.acm_count, ACM_NAMES)
        selected == sample(r, [i \in 1..ACM_NAMES |-> i - 1], n_acms)
    IN  [kind  |-> "ACO",
         fname |-> <<"ACO_">> \o ZeroPad(st.day + 1, 3) \o <<"-26_Day_">>
                      \o ZeroPad(st.day + 1, 3) \o <<".docx">>,
         num   |-> st.day + 1,
         day   |-> st.day,
         body  |-> [acms    |-> AcmRows(selected, 1, Skip(r, n_acms)),
                    n_fscms |-> Min(st.fscm_count, FSCM_DATA)]]

\* the shared stream when generate_aco returns: random.seed(42)
stream_after_aco == seed(GLOBAL_SEED)

EFFECTS == <<"DESTROY", "NEUTRALIZE", "DENY", "DISRUPT", "DISRUPT (NON-LETHAL)", "DEGRADE">>
NOMINATORS == <<"SOTF-C", "SOTF-K", "SOTF-B", "MISTF", "CATF", "J-2">>
OBJECTIVES == <<"OBJ 1: Secure Corridor", "OBJ 2: Neutralize SLM", "OBJ 3: Counter SLM",
                "OBJ 4: Isolate">>

\* the rows of generate_jiptl for targets tgts[i..], priorities from pri on
RECURSIVE JiptlRows(_, _, _, _, _)
JiptlRows(tgts, i, pri, above, r) ==
    IF i > Len(tgts) THEN <<>>
    ELSE LET tgt     == tgts[i]
             r1      == Skip(r, jitter_draws(tgt[4]))
             nolethal == above /\ tgt[3] = "INFO OPS"
             effect  == IF nolethal THEN "DISRUPT (NON-LETHAL)"
                        ELSE IF above THEN choice(r1, SubSeq(EFFECTS, 1, 4))
                        ELSE choice(r1, EFFECTS)
             r2      == IF nolethal THEN r1 ELSE Skip(r1, 1)
         IN  <<[pri       |-> pri,
                tgt_id    |-> tgt[1],
                location  |-> jitter_mgrs(tgt[4], r),
                effect    |-> effect,
                nominator |-> choice(r2, NOMINATORS),
                objective |-> choice(Skip(r2, 1), OBJECTIVES),
                status    |-> IF above THEN "NOMINATED" ELSE "BELOW CUT"]>>
             \o JiptlRows(tgts, i + 1, pri + 1, above, Skip(r2, 2))

\* the draws the rows of tgts take
RECURSIVE JiptlDraws(_, _, _)
JiptlDraws(tgts, i, above) ==
    IF i > Len(tgts) THEN 0
    ELSE jitter_draws(tgts[i][4])
         + (IF above /\ tgts[i][3] = "INFO OPS" THEN 0 ELSE 1) + 2
         + JiptlDraws(tgts, i + 1, above)

generate_jiptl(st) ==
    LET r     == seed(GLOBAL_SEED + st.day)
        above == st.jiptl_above_cut
        below == st.jiptl_below_cut
    IN  [kind  |-> "JIPTL",
         fname |-> <<"JIPTL_">> \o ZeroPad(st.day + 1, 3) \o <<"-26_Day_">>
                      \o ZeroPad(st.day + 1, 3) \o <<".docx">>,
         num   |-> st.day + 1,
         day   |-> st.day,
         body  |-> [above_cut |-> JiptlRows(above, 1, 1, TRUE, r),
                    below_cut |-> JiptlRows(below, 1, Len(above) + 1, FALSE,
                                            Skip(r, JiptlDraws(above, 1, TRUE)))]]

\* generate_jiptl returning without line 886: the stream stays the day's
stream_after_jiptl_NoReseed ==
    Skip(seed(GLOBAL_SEED + state.day),
         JiptlDraws(state.jiptl_above_cut, 1, TRUE) + JiptlDraws(state.jiptl_below_cut, 1, FALSE))

\* the shared stream when generate_jiptl returns: random.seed(42)
stream_after_jiptl == seed(GLOBAL_SEED)

\* phase_pirs of generate_ccir, each entry by the subject of its PIR 1
phase_pirs ==
    [p \in 1..4 |->
        <<"SLM intentions/timeline for corridor attacks",
          "SLM adaptation to corridor security measures",
          "SLM intentions to escalate or negotiate",
          "SLM reconstitution potential">>[p]]

\* the CCIR file named after its phase, the way the ROE file is
generate_ccir_NamedByPhase(st, ccir_num) ==
    [kind  |-> "CCIR",
     fname |-> <<"CCIR_">> \o ZeroPad(st.phase, 3)
                  \o <<"_Phase_", st.phase_label, "_", replace_spaces(st.phase_name), ".docx">>,
     num   |-> ccir_num,
     day   |-> st.day,
     body  |-> [phase |-> st.phase,
                pirs  |-> DictGet(phase_pirs, st.phase, phase_pirs[1])]]

generate_ccir(st, ccir_num) ==
    [kind  |-> "CCIR",
     fname |-> <<"CCIR_">> \o ZeroPad(ccir_num, 3) \o <<"_Day_">>
                  \o ZeroPad(st.day + 1, 3) \o <<".docx">>,
     num   |-> ccir_num,
     day   |-> st.day,
     body  |-> [phase |-> st.phase,
                pirs  |-> DictGet(phase_pirs, st.phase, phase_pirs[1])]]

\* pir_configs of generate_pir, each entry by the title of its PIR 1
pir_configs ==
    [p \in 1..4 |->
        <<"PIR 1: SLM Corridor Attack Intentions", "PIR 1: SLM Tactical Adaptation",
          "PIR 1: SLM Escalation vs Negotiation Intent",
          "PIR 1: SLM Reconstitution Potential">>[p]]

generate_pir(st, pir_num) ==
    [kind  |-> "PIR",
     fname |-> <<"PIR_">> \o ZeroPad(pir_num, 3) \o <<"_Day_">>
                  \o ZeroPad(st.day + 1, 3) \o <<".docx">>,
     num   |-> pir_num,
     day   |-> st.day,
     body  |-> [phase |-> st.phase,
                pirs  |-> DictGet(pir_configs, st.phase, pir_configs[1])]]

----------------------------------------------------------------------------
(* MAIN ORCHESTRATOR: run(num_days, output_root) *)

KINDS == {"OPORD", "FRAGO", "ATO", "ROE", "ACO", "CCIR", "PIR", "JIPTL"}

\* phase_changed = (current_phase != last_phase)
phase_changed == state.phase # last_phase

\* the periodic conditions with a plausible slip each
ccir_due_CadenceOnly == day % CCIR_INTERVAL = 0
pir_due_OffByOne == (day + 1) % PIR_INTERVAL = 0 \/ phase_changed

\* the conditions under which the loop body emits
opord_due == phase_changed
roe_due == phase_changed
ccir_due == day % CCIR_INTERVAL = 0 \/ phase_changed
pir_due == day % PIR_INTERVAL = 0 \/ phase_changed

\* doc.save(path) of a generator, counted by the loop body
Save(doc) ==
    /\ files' = Append(files, IF keep_bodies THEN doc ELSE [doc EXCEPT !.body = <<>>])
    /\ day_docs' = day_docs + 1

\* lines 1161-1186: the output directories, the counters
RunStart ==
    /\ pc = "start"
    /\ dirs_made' = TRUE
    /\ frago_counter' = 0
    /\ ccir_counter' = 0
    /\ pir_counter' = 0
    /\ roe_version' = 0
    /\ last_phase' = 0
    /\ total_docs' = 0
    /\ day' = 0
    /\ pc' = "loop"
    /\ UNCHANGED <<twister, keep_bodies, rng, num_days, state, day_docs, files, reported,
                   execution, first_files>>

\* lines 1188-1196: the next day of range(num_days), its Daily State
RunDay ==
    /\ pc = "loop"
    /\ day < num_days
    /\ state' = DailyState(day, rng)
    /\ rng' = stream_after_state
    /\ day_docs' = 0
    /\ pc' = "opord"
    /\ UNCHANGED <<twister, keep_bodies, num_days, day, frago_counter, ccir_counter, pir_counter,
                   roe_version, last_phase, total_docs, dirs_made, files, reported,
                   execution, first_files>>

\* lines 1198-1201
RunOpord ==
    /\ pc = "opord"
    /\ IF opord_due
       THEN Save(generate_opord(state))
       ELSE UNCHANGED <<files, day_docs>>
    /\ pc' = "roe"
    /\ UNCHANGED <<twister, keep_bodies, rng, num_days, day, state, frago_counter, ccir_counter,
                   pir_counter, roe_version, last_phase, total_docs, dirs_made,
                   reported, execution, first_files>>

\* lines 1203-1207
RunRoe ==
    /\ pc = "roe"
    /\ IF roe_due
       THEN /\ roe_version' = roe_version + 1
            /\ Save(generate_roe(state, roe_version + 1))
       ELSE UNCHANGED <<roe_version, files, day_docs>>
    /\ pc' = "frago"
    /\ UNCHANGED <<twister, keep_bodies, rng, num_days, day, state, frago_counter, ccir_counter,
                   pir_counter, last_phase, total_docs, dirs_made, reported,
                   execution, first_files>>

\* lines 1209-1212
RunFrago ==
    /\ pc = "frago"
    /\ frago_counter' = frago_counter + 1
    /\ Save(generate_frago(state, frago_counter + 1, rng))
    /\ rng' = stream_after_frago(rng)
    /\ pc' = "ato"
    /\ UNCHANGED <<twister, keep_bodies, num_days, day, state, ccir_counter, pir_counter,
                   roe_version, last_phase, total_docs, dirs_made, reported,
                   execution, first_files>>

\* the ATO step saving only on a day with events
RunAto_OnlyWithEvents ==
    /\ pc = "ato"
    /\ IF Len(state.events) > 0
       THEN Save(generate_ato(state))
       ELSE UNCHANGED <<files, day_docs>>
    /\ pc' = "aco"
    /\ UNCHANGED <<twister, keep_bodies, rng, num_days, day, state, frago_counter,
                   ccir_counter, pir_counter, roe_version, last_phase, total_docs,
                   dirs_made, reported, execution, first_files>>

\* lines 1214-1216
RunAto ==
    /\ pc = "ato"
    /\ Save(generate_ato(state))
    /\ pc' = "aco"
    /\ UNCHANGED <<twister, keep_bodies, rng, num_days, day, state, frago_counter, ccir_counter,
                   pir_counter, roe_version, last_phase, total_docs, dirs_made,
                   reported, execution, first_files>>

\* lines 1218-1220
RunAco ==
    /\ pc = "aco"
    /\ Save(generate_aco(state))
    /\ rng' = stream_after_aco
    /\ pc' = "jiptl"
    /\ UNCHANGED <<twister, keep_bodies, num_days, day, state, frago_counter, ccir_counter,
                   pir_counter, roe_version, last_phase, total_docs, dirs_made,
                   reported, execution, first_files>>

\* lines 1222-1224
RunJiptl ==
    /\ pc = "jiptl"
    /\ Save(generate_jiptl(state))
    /\ rng' = stream_after_jiptl
    /\ pc' = "ccir"
    /\ UNCHANGED <<twister, keep_bodies, num_days, day, state, frago_counter, ccir_counter,
                   pir_counter, roe_version, last_phase, total_docs, dirs_made,
                   reported, execution, first_files>>

\* the CCIR step saving once per trigger that holds
RunCcir_PerTrigger ==
    /\ pc = "ccir"
    /\ LET n == (IF day % CCIR_INTERVAL = 0 THEN 1 ELSE 0) + (IF phase_changed THEN 1 ELSE 0)
       IN  /\ ccir_counter' = ccir_counter + n
           /\ files' = files \o [i \in 1..n |-> generate_ccir(state, ccir_counter + i)]
           /\ day_docs' = day_docs + n
    /\ pc' = "pir"
    /\ UNCHANGED <<twister, keep_bodies, rng, num_days, day, state, frago_counter,
                   pir_counter, roe_version, last_phase, total_docs, dirs_made, reported,
                   execution, first_files>>

\* lines 1226-1230
RunCcir ==
    /\ pc = "ccir"
    /\ IF ccir_due
       THEN /\ ccir_counter' = ccir_counter + 1
            /\ Save(generate_ccir(state, ccir_counter + 1))
       ELSE UNCHANGED <<ccir_counter, files, day_docs>>
    /\ pc' = "pir"
    /\ UNCHANGED <<twister, keep_bodies, rng, num_days, day, state, frago_counter, pir_counter,
                   roe_version, last_phase, total_docs, dirs_made, reported,
                   execution, first_files>>

\* the PIR step passing the CCIR counter as the serial
RunPir_CcirSerial ==
    /\ pc = "pir"
    /\ IF pir_due
       THEN /\ pir_counter' = pir_counter + 1
            /\ Save(generate_pir(state, ccir_counter + 1))
       ELSE UNCHANGED <<pir_counter, files, day_docs>>
    /\ pc' = "endday"
    /\ UNCHANGED <<twister, keep_bodies, rng, num_days, day, state, frago_counter, ccir_counter,
                   roe_version, last_phase, total_docs, dirs_made, reported,
                   execution, first_files>>

\* lines 1232-1236
RunPir ==
    /\ pc = "pir"
    /\ IF pir_due
       THEN /\ pir_counter' = pir_counter + 1
            /\ Save(generate_pir(state, pir_counter + 1))
       ELSE UNCHANGED <<pir_counter, files, day_docs>>
    /\ pc' = "endday"
    /\ UNCHANGED <<twister, keep_bodies, rng, num_days, day, state, frago_counter, ccir_counter,
                   roe_version, last_phase, total_docs, dirs_made, reported,
                   execution, first_files>>

\* the end of the loop body without line 1239
RunEndDay_ForgetsPhase ==
    /\ pc = "endday"
    /\ total_docs' = total_docs + day_docs
    /\ day' = day + 1
    /\ pc' = "loop"
    /\ UNCHANGED <<twister, keep_bodies, rng, num_days, state, frago_counter,
                   ccir_counter, pir_counter, roe_version, last_phase, day_docs,
                   dirs_made, files, reported, execution, first_files>>

\* lines 1238-1240, and the loop's step to the next day
RunEndDay ==
    /\ pc = "endday"
    /\ total_docs' = total_docs + day_docs
    /\ last_phase' = state.phase
    /\ day' = day + 1
    /\ pc' = "loop"
    /\ UNCHANGED <<twister, keep_bodies, rng, num_days, state, frago_counter, ccir_counter,
                   pir_counter, roe_version, day_docs, dirs_made, files, reported,
                   execution, first_files>>

\* lines 1242-1249: range(num_days) is exhausted
RunReport ==
    /\ pc = "loop"
    /\ ~(day < num_days)
    /\ reported' = TRUE
    /\ pc' = "done"
    /\ UNCHANGED <<twister, keep_bodies, rng, num_days, day, state, frago_counter, ccir_counter,
                   pir_counter, roe_version, last_phase, total_docs, day_docs,
                   dirs_made, files, execution, first_files>>

\* the same process calls run again with the same arguments
RunAgain ==
    /\ pc = "done"
    /\ execution = 1
    /\ execution' = 2
    /\ first_files' = files
    /\ files' = <<>>
    /\ reported' = FALSE
    /\ pc' = "start"
    /\ UNCHANGED <<twister, keep_bodies, rng, num_days, day, state, frago_counter, ccir_counter,
                   pir_counter, roe_version, last_phase, total_docs, day_docs,
                   dirs_made>>

RunStep ==
    \/ RunStart
    \/ RunDay
    \/ RunOpord
    \/ RunRoe
    \/ RunFrago
    \/ RunAto
    \/ RunAco
    \/ RunJiptl
    \/ RunCcir
    \/ RunPir
    \/ RunEndDay
    \/ RunReport

QueryIdle ==
    /\ q_day = 0
    /\ q_done = FALSE
    /\ q_phase = 0
    /\ q_transition = FALSE
    /\ q_state = NoState

\* a fresh process: line 60 has seeded the stream, run has not been entered
RunStarts(days) ==
    /\ rng = seed(GLOBAL_SEED)
    /\ num_days \in days
    /\ pc = "start"
    /\ day = 0
    /\ state = NoState
    /\ frago_counter = 0
    /\ ccir_counter = 0
    /\ pir_counter = 0
    /\ roe_version = 0
    /\ last_phase = 0
    /\ total_docs = 0
    /\ day_docs = 0
    /\ dirs_made = FALSE
    /\ files = <<>>
    /\ reported = FALSE
    /\ execution = 1
    /\ first_files = <<>>

\* run(num_days) for each num_days in -1..MaxDays
Init ==
    /\ twister \in 0..(Twisters - 1)
    /\ keep_bodies = TRUE
    /\ RunStarts(-1..MaxDays)
    /\ QueryIdle
Next == RunStep /\ UNCHANGED queryVars
Spec == Init /\ [][Next]_vars

\* long runs: one day, one day past each phase start, and past the last phase end;
\* the saved documents are listed without their bodies
LongRuns == {1} \cup {PHASES[p].start + 1 : p \in DOMAIN PHASES} \cup {LongDays}

InitLong ==
    /\ twister = 0
    /\ keep_bodies = FALSE
    /\ RunStarts(LongRuns)
    /\ QueryIdle
SpecLong == InitLong /\ [][Next]_vars

\* run(num_days) called twice by one process
NextTwice == (RunStep \/ RunAgain) /\ UNCHANGED queryVars
SpecTwice == Init /\ [][NextTwice]_vars

----------------------------------------------------------------------------
(* The helper functions and the Daily State applied to one day by a process *)
(* whose stream is as line 60 seeded it, or a few draws further (the draws  *)
(* generate_frago takes).                                                   *)

\* a process that has not entered run, its shared stream being r
RunIdleAt(label, r) ==
    /\ rng = r
    /\ num_days = 0
    /\ pc = label
    /\ day = 0
    /\ state = NoState
    /\ frago_counter = 0
    /\ ccir_counter = 0
    /\ pir_counter = 0
    /\ roe_version = 0
    /\ last_phase = 0
    /\ total_docs = 0
    /\ day_docs = 0
    /\ dirs_made = FALSE
    /\ files = <<>>
    /\ reported = FALSE
    /\ execution = 1
    /\ first_files = <<>>

RunIdle(label) == RunIdleAt(label, seed(GLOBAL_SEED))

Query ==
    /\ pc = "query"
    /\ ~q_done
    /\ q_done' = TRUE
    /\ q_phase' = get_phase(q_day)
    /\ q_transition' = is_phase_transition(q_day)
    /\ q_state' = DailyState(q_day, rng)
    /\ rng' = stream_after_state
    /\ UNCHANGED <<twister, keep_bodies, num_days, pc, day, state, frago_counter,
                   ccir_counter, pir_counter, roe_version, last_phase, total_docs,
                   day_docs, dirs_made, files, reported, execution, first_files, q_day>>

InitQuery ==
    /\ twister \in 0..(Twisters - 1)
    /\ keep_bodies = TRUE
    /\ \E k \in 0..MaxDraws : RunIdleAt("query", Skip(seed(GLOBAL_SEED), k))
    /\ q_day \in 0..MaxQueryDay
    /\ q_done = FALSE
    /\ q_phase = 0
    /\ q_transition = FALSE
    /\ q_state = NoState

NextQuery == Query
SpecQuery == InitQuery /\ [][NextQuery]_vars

----------------------------------------------------------------------------
(* A caller that constructs Daily States and calls generators in any order: *)
(* q_state is the first Daily State it constructed for q_day, files holds  *)
(* the document it built last.                                             *)

ProbeDays == (0..MaxProbeDay) \cup {121, 700}

driverFrame == <<twister, keep_bodies, num_days, pc, day, frago_counter, ccir_counter,
                 pir_counter, roe_version, last_phase, total_docs, day_docs, dirs_made,
                 reported, execution, first_files, q_day, q_phase, q_transition>>

\* DailyState(q_day)
DeriveProbe ==
    /\ pc = "driver"
    /\ state' = DailyState(q_day, rng)
    /\ rng' = stream_after_state
    /\ q_done' = TRUE
    /\ q_state' = IF q_done THEN q_state ELSE state'
    /\ UNCHANGED <<driverFrame, files>>

\* DailyState of another day
DeriveOther ==
    /\ pc = "driver"
    /\ state' = DailyState(q_day + 1, rng)
    /\ rng' = stream_after_state
    /\ UNCHANGED <<driverFrame, files, q_done, q_state>>

CanBuild ==
    /\ pc = "driver"
    /\ state # NoState

BuildOpord ==
    /\ CanBuild
    /\ files' = <<generate_opord(state)>>
    /\ UNCHANGED <<driverFrame, rng, state, q_done, q_state>>

BuildRoe ==
    /\ CanBuild
    /\ files' = <<generate_roe(state, 1)>>
    /\ UNCHANGED <<driverFrame, rng, state, q_done, q_state>>

BuildFrago ==
    /\ CanBuild
    /\ rng.pos < MaxDraws
    /\ files' = <<generate_frago(state, 1, rng)>>
    /\ rng' = stream_after_frago(rng)
    /\ UNCHANGED <<driverFrame, state, q_done, q_state>>

BuildAto ==
    /\ CanBuild
    /\ files' = <<generate_ato(state)>>
    /\ UNCHANGED <<driverFrame, rng, state, q_done, q_state>>

BuildAco ==
    /\ CanBuild
    /\ files' = <<generate_aco(state)>>
    /\ rng' = stream_after_aco
    /\ UNCHANGED <<driverFrame, state, q_done, q_state>>

BuildJiptl ==
    /\ CanBuild
    /\ files' = <<generate_jiptl(state)>>
    /\ rng' = stream_after_jiptl
    /\ UNCHANGED <<driverFrame, state, q_done, q_state>>

BuildCcir ==
    /\ CanBuild
    /\ files' = <<generate_ccir(state, 1)>>
    /\ UNCHANGED <<driverFrame, rng, state, q_done, q_state>>

BuildPir ==
    /\ CanBuild
    /\ files' = <<generate_pir(state, 1)>>
    /\ UNCHANGED <<driverFrame, rng, state, q_done, q_state>>

InitDriver ==
    /\ twister \in 0..(Twisters - 1)
    /\ keep_bodies = TRUE
    /\ RunIdle("driver")
    /\ q_day \in ProbeDays
    /\ q_done = FALSE
    /\ q_phase = 0
    /\ q_transition = FALSE
    /\ q_state = NoState

\* DailyState(q_day) of a configuration whose PHASES has a phase beyond those
\* the builders' tables list
DeriveUnlisted ==
    /\ pc = "driver"
    /\ state' = [DailyState(q_day, rng) EXCEPT !.phase = Cardinality(DOMAIN PHASES) + 1]
    /\ rng' = stream_after_state
    /\ UNCHANGED <<driverFrame, files, q_done, q_state>>

NextDriver ==
    \/ DeriveProbe
    \/ DeriveOther
    \/ BuildOpord
    \/ BuildRoe
    \/ BuildFrago
    \/ BuildAto
    \/ BuildAco
    \/ BuildJiptl
    \/ BuildCcir
    \/ BuildPir

SpecDriver == InitDriver /\ [][NextDriver]_vars

\* the same caller under the incomplete configuration
NextDefect == NextDriver \/ DeriveUnlisted
SpecDefect == InitDriver /\ [][NextDefect]_vars

----------------------------------------------------------------------------
(* A caller that constructs the Daily State of one day and builds its      *)
(* FRAGO, starting anywhere in the first draws of the shared stream.       *)

\* st = DailyState(q_day)
BriefState ==
    /\ pc = "brief"
    /\ ~q_done
    /\ q_done' = TRUE
    /\ state' = DailyState(q_day, rng)
    /\ q_state' = state'
    /\ rng' = stream_after_state
    /\ UNCHANGED <<driverFrame, files>>

\* generate_frago(st, output_dir, 1)
BriefFrago ==
    /\ pc = "brief"
    /\ q_done
    /\ files = <<>>
    /\ files' = <<generate_frago(state, 1, rng)>>
    /\ rng' = stream_after_frago(rng)
    /\ UNCHANGED <<driverFrame, state, q_done, q_state>>

InitBrief ==
    /\ twister \in 0..(Twisters - 1)
    /\ keep_bodies = TRUE
    /\ \E k \in 0..MaxDraws : RunIdleAt("brief", Skip(seed(GLOBAL_SEED), k))
    /\ q_day \in 0..MaxQueryDay
    /\ q_done = FALSE
    /\ q_phase = 0
    /\ q_transition = FALSE
    /\ q_state = NoState

NextBrief == BriefState \/ BriefFrago
SpecBrief == InitBrief /\ [][NextBrief]_vars

----------------------------------------------------------------------------
(* A caller that jitters one coordinate string, well-formed or not, at any *)
(* of the first positions of a freshly seeded stream.                      *)

MaxFieldLen == 2
MaxFields == 5
MaxJitterSeed == 5

JitterChars == {"5", "-", "X"}

JitterFields ==
    UNION {[1..n -> JitterChars] : n \in 1..MaxFieldLen}
        \cup {<<"1", "_", "0">>, <<"+", "7">>, <<"9", "9", "7", "0">>, <<"5", "_">>}

\* every prefix of "17R NM <easting> <northing> 4 4 ..."
JitterInputs ==
    UNION {{SubSeq(<< <<"1", "7", "R">>, <<"N", "M">>, e, n >>
                      \o [i \in 1..(MaxFields - 4) |-> <<"4">>], 1, len) :
               len \in 0..MaxFields} :
           e \in JitterFields, n \in JitterFields}

\* jitter_mgrs(q_state.base_mgrs)
Jitter ==
    /\ pc = "jitter"
    /\ ~q_done
    /\ q_done' = TRUE
    /\ q_state' = [base_mgrs |-> q_state.base_mgrs,
                   raised    |-> jitter_raises(q_state.base_mgrs),
                   result    |-> IF jitter_raises(q_state.base_mgrs) THEN <<>>
                                 ELSE jitter_mgrs(q_state.base_mgrs, rng)]
    /\ rng' = Skip(rng, jitter_draws(q_state.base_mgrs))
    /\ UNCHANGED <<driverFrame, state, files>>

InitJitter ==
    /\ twister \in 0..(Twisters - 1)
    /\ keep_bodies = TRUE
    /\ \E s \in 0..MaxJitterSeed, k \in 0..MaxDraws : RunIdleAt("jitter", Skip(seed(s), k))
    /\ q_day = 0
    /\ q_done = FALSE
    /\ q_phase = 0
    /\ q_transition = FALSE
    /\ \E m \in JitterInputs : q_state = [base_mgrs |-> m, raised |-> FALSE, result |-> <<>>]

NextJitter == Jitter
SpecJitter == InitJitter /\ [][NextJitter]_vars

----------------------------------------------------------------------------
(* Counting the saved documents *)

DAILY_KINDS == {"FRAGO", "ATO", "ACO", "JIPTL"}

\* the saved documents of kind k
OfKind(k) == {i \in DOMAIN files : files[i].kind = k}

\* the saved documents of kind k issued on day d
OfKindOn(k, d) == {i \in DOMAIN files : files[i].kind = k /\ files[i].day = d}

\* the documents saved so far in the current iteration of the loop
Today == SubSeq(files, Len(files) - day_docs + 1, Len(files))

TodayOfKind(k) == {i \in DOMAIN Today : Today[i].kind = k}

\* the loop is between two iterations, or over
BetweenDays == pc \in {"loop", "done"}

\* d is the first day of a run or its phase is not the phase of the day before
PhaseChangeDay(d) == d = 0 \/ get_phase(d) # get_phase(d - 1)

PhaseStartDays(n) == {d \in 0..(n - 1) : is_phase_transition(d)}

\* the daily kinds, day by day: one document of each on every finished day
C1_DayInv ==
    /\ day >= 0
    /\ pc \notin {"start", "loop", "done"} => state.day = day /\ day < num_days
    /\ \A i \in DOMAIN files : files[i].day <= day /\ files[i].day < num_days
    /\ \A k \in DAILY_KINDS :
          /\ \A d \in 0..(day - 1) : Cardinality(OfKindOn(k, d)) = 1
          /\ Cardinality(OfKindOn(k, day)) <= 1
          /\ pc = "endday" => Cardinality(OfKindOn(k, day)) = 1
          /\ pc = "done" /\ num_days >= 0 => Cardinality(OfKind(k)) = num_days
    /\ pc = "done" => day = Max(num_days, 0)

\* what is left of run: the days not yet finished and the steps left of the day
PcRank ==
    CASE pc = "start" -> 12 [] pc = "loop" -> 11 [] pc = "opord" -> 10
      [] pc = "roe" -> 9 [] pc = "frago" -> 8 [] pc = "ato" -> 7 [] pc = "aco" -> 6
      [] pc = "jiptl" -> 5 [] pc = "ccir" -> 4 [] pc = "pir" -> 3 [] pc = "endday" -> 2
      [] pc = "done" -> 0

Remaining == (Max(num_days, 0) - day) * 12 + PcRank

C1_DayStep ==
    /\ day' = day \/ (pc = "endday" /\ day' = day + 1)
    /\ pc' = "opord" => pc = "loop" /\ state'.day = day /\ day' = day
    /\ Remaining' < Remaining
    /\ Remaining' >= 0

\* C1: run(N) visits the days 0..N-1 once each in increasing order and then
\* terminates (every step lessens what remains of the run); on every visited day
\* it saves exactly one FRAGO, one ATO, one ACO and one JIPTL, so each daily kind
\* totals N documents (N >= 0).
C1_DailyKindsEveryDay == []C1_DayInv /\ [][C1_DayStep]_vars

C1_Witness ==
    /\ pc = "done"
    /\ num_days > PHASES[2].start
    /\ \A k \in DAILY_KINDS : Cardinality(OfKind(k)) = num_days
    /\ \E i \in DOMAIN files : files[i].kind = "FRAGO" /\ Len(files[i].body.event_texts) > 0

\* C2: an OPORD and a ROE are saved on day d iff the phase of d differs from
\* last_phase, which is exactly when d is a phase start day; so for N >= 1 the
\* OPORDs and the ROEs each number the phase start days in 0..N-1, between 1 and
\* 4, and 4 once N is beyond the last declared phase end.
C2_OpordRoeOnPhaseChange ==
    /\ pc \in {"frago", "ato", "aco", "jiptl", "ccir", "pir", "endday"} =>
          /\ phase_changed <=> is_phase_transition(day)
          /\ phase_changed <=> PhaseChangeDay(day)
          /\ Cardinality(TodayOfKind("OPORD")) = IF phase_changed THEN 1 ELSE 0
          /\ Cardinality(TodayOfKind("ROE")) = IF phase_changed THEN 1 ELSE 0
    /\ BetweenDays =>
          /\ Cardinality(OfKind("OPORD")) = Cardinality(PhaseStartDays(day))
          /\ Cardinality(OfKind("ROE")) = Cardinality(OfKind("OPORD"))
          /\ roe_version = Cardinality(OfKind("ROE"))
    /\ pc = "done" /\ num_days >= 1 =>
          /\ day = num_days
          /\ Cardinality(OfKind("OPORD")) \in 1..4
          /\ num_days > PHASES[4].end + 1 => Cardinality(OfKind("OPORD")) = 4

C2_Witness ==
    /\ state.day = PHASES[2].start
    /\ pc = "frago"
    /\ phase_changed
    /\ ~PhaseChangeDay(state.day - 1)
    /\ Cardinality(OfKind("OPORD")) = 2
    /\ Cardinality(OfKind("ROE")) = 2
    /\ Cardinality(OfKindOn("OPORD", state.day)) = 1
    /\ Cardinality(OfKindOn("ROE", state.day)) = 1

\* the days of 0..n-1 on which a periodic kind with the given interval is due
PeriodicDays(n, interval) == {d \in 0..(n - 1) : d % interval = 0 \/ PhaseChangeDay(d)}

\* C3: on each day exactly one CCIR is saved when day mod CCIR_INTERVAL = 0 or
\* phase_changed, none otherwise, one (not two) when both hold; the same for PIR;
\* over the days 0..N-1 each periodic kind numbers the union of the multiples of
\* its interval and the phase-change days.
C3_PeriodicOncePerDueDay ==
    /\ pc = "endday" =>
          /\ Cardinality(TodayOfKind("CCIR")) =
                IF day % CCIR_INTERVAL = 0 \/ phase_changed THEN 1 ELSE 0
          /\ Cardinality(TodayOfKind("PIR")) =
                IF day % PIR_INTERVAL = 0 \/ phase_changed THEN 1 ELSE 0
          /\ phase_changed <=> PhaseChangeDay(day)
    /\ BetweenDays =>
          /\ Cardinality(OfKind("CCIR")) = Cardinality(PeriodicDays(day, CCIR_INTERVAL))
          /\ Cardinality(OfKind("PIR")) = Cardinality(PeriodicDays(day, PIR_INTERVAL))
          /\ ccir_counter = Cardinality(OfKind("CCIR"))
          /\ pir_counter = Cardinality(OfKind("PIR"))
          /\ \A d \in 0..(day - 1) :
                /\ Cardinality(OfKindOn("CCIR", d)) <= 1
                /\ Cardinality(OfKindOn("PIR", d)) <= 1

\* a run that passed day 0 (both triggers), an off-cadence phase change (day 31)
\* and days with no trigger
C3_Witness ==
    /\ pc = "done"
    /\ num_days > PHASES[2].start + 1
    /\ PHASES[2].start % CCIR_INTERVAL # 0
    /\ Cardinality(OfKindOn("CCIR", PHASES[2].start)) = 1
    /\ Cardinality(OfKindOn("PIR", PHASES[2].start)) = 1
    /\ Cardinality(OfKindOn("CCIR", 0)) = 1
    /\ Cardinality(OfKindOn("CCIR", 1)) = 0

DaysOfKind(k) == {files[i].day : i \in OfKind(k)}

\* C4: run(8) saves 1 OPORD and 1 ROE (both on day 0), 8 FRAGOs, 8 ATOs, 8 ACOs,
\* 8 JIPTLs, and CCIRs and PIRs on days 0, 3 and 6 only: 40 documents.
C4_EightDayRun ==
    pc = "done" /\ num_days = 8 =>
        /\ Cardinality(OfKind("OPORD")) = 1 /\ DaysOfKind("OPORD") = {0}
        /\ Cardinality(OfKind("ROE")) = 1 /\ DaysOfKind("ROE") = {0}
        /\ \A k \in DAILY_KINDS : Cardinality(OfKind(k)) = 8
        /\ Cardinality(OfKind("CCIR")) = 3 /\ DaysOfKind("CCIR") = {0, 3, 6}
        /\ Cardinality(OfKind("PIR")) = 3 /\ DaysOfKind("PIR") = {0, 3, 6}
        /\ Len(files) = 40
        /\ total_docs = 40

C4_Witness == pc = "done" /\ num_days = 8 /\ Len(files) = 40 /\ reported

\* C5: run(1) saves exactly 8 documents, one of each kind; day 0 meets both the
\* modulo trigger and the transition trigger and gets a single CCIR and a single PIR.
C5_OneDayRun ==
    /\ pc = "done" /\ num_days = 1 =>
          /\ \A k \in KINDS : Cardinality(OfKind(k)) = 1
          /\ Len(files) = 8
          /\ total_docs = 8
    /\ pc = "endday" /\ day = 0 =>
          /\ day % CCIR_INTERVAL = 0 /\ day % PIR_INTERVAL = 0 /\ phase_changed
          /\ Cardinality(TodayOfKind("CCIR")) = 1
          /\ Cardinality(TodayOfKind("PIR")) = 1

C5_Witness == pc = "done" /\ num_days = 1 /\ Len(files) = 8 /\ reported

----------------------------------------------------------------------------
\* the declared phases whose range contains d
PhasesContaining(d) == {p \in DOMAIN PHASES : PHASES[p].start <= d /\ d <= PHASES[p].end}

\* C6: get_phase is total on the days d >= 0 with a result in 1..4; for d in 0..999
\* exactly one declared range contains d and get_phase(d) is that phase; for
\* d > 999 no range contains d and get_phase(d) = 4; the ranges are contiguous and
\* get_phase is non-decreasing in d.
C6_PhaseOfDay ==
    q_done =>
        /\ q_phase \in 1..4
        /\ q_day <= PHASES[4].end => PhasesContaining(q_day) = {q_phase}
        /\ q_day > PHASES[4].end => PhasesContaining(q_day) = {} /\ q_phase = 4
        /\ \A p \in 2..4 : PHASES[p].start = PHASES[p - 1].end + 1
        /\ PHASES[1].start = 0
        /\ \A e \in 0..q_day : get_phase(e) <= q_phase
        /\ q_state.phase = q_phase

C6_Witness == q_done /\ q_day > PHASES[4].end /\ q_phase = 4 /\ PhasesContaining(q_day) = {}

\* C7: is_phase_transition(0) is true; for every day t with is_phase_transition(t)
\* the start of the phase get_phase(t) equals t; for every other day
\* is_phase_transition is false.
C7_TransitionDays ==
    q_done =>
        /\ q_day = 0 => q_transition
        /\ q_transition <=> PHASES[q_phase].start = q_day
        /\ q_transition <=> PhaseChangeDay(q_day)

C7_Witness == q_done /\ q_transition /\ q_day > 0 /\ PHASES[q_phase].start = q_day

\* C8: two executions of run(N) by one process, with the same N and the stream
\* seeded once with the global seed, save the same sequence of documents (kinds,
\* order, serials) with the same content.
C8_SameDocumentsTwice ==
    execution = 2 =>
        /\ Len(files) <= Len(first_files)
        /\ files = SubSeq(first_files, 1, Len(files))
        /\ pc = "done" => files = first_files

C8_Witness ==
    /\ execution = 2
    /\ pc = "done"
    /\ num_days > PHASES[2].start
    /\ files = first_files
    /\ Len(files) > num_days * 4

\* C9: constructing the Daily State of a day again in the same process, back to
\* back or with other days' states or document builds in between, yields the same
\* six metrics, events, target split and missions.
C9_RederivedStateSame ==
    q_done /\ state.day = q_day =>
        /\ state.slm_strength = q_state.slm_strength
        /\ state.hnsf_readiness = q_state.hnsf_readiness
        /\ state.corridor_threat = q_state.corridor_threat
        /\ state.popular_support_gos = q_state.popular_support_gos
        /\ state.tip_line_calls = q_state.tip_line_calls
        /\ state.amnesty_surrenders = q_state.amnesty_surrenders
        /\ state.events = q_state.events
        /\ state.jiptl_above_cut = q_state.jiptl_above_cut
        /\ state.jiptl_below_cut = q_state.jiptl_below_cut
        /\ state.ato_missions = q_state.ato_missions

\* the number of targets the Daily State of day d neutralized
NeutralizedOn(d) ==
    Len(available_targets(d)) - Len(surviving_targets(d, seed(GLOBAL_SEED + d)))

\* C10: the number of neutralized targets of day d is
\* max(0, min(|available(d)| - 5, floor(3d/100))), clamped against the available
\* set of that day; it is non-decreasing in d, and the active target list always
\* has at least 5 entries.
C10_NeutralizedCount ==
    q_done =>
        LET available == available_targets(q_day)
            active    == q_state.active_targets
            ids(ts)   == {ts[i][1] : i \in DOMAIN ts}
        IN  /\ Range(available) = {t \in Range(TARGET_POOL) : t[6] <= q_day}
            /\ Cardinality(ids(active)) = Len(active)
            /\ ids(active) \subseteq ids(available)
            /\ Cardinality(ids(available) \ ids(active))
                  = Max(0, Min(Len(available) - 5, (3 * q_day) \div 100))
            /\ Len(active) >= 5
            /\ Len(active) = Len(q_state.jiptl_above_cut) + Len(q_state.jiptl_below_cut)
            /\ q_day > 0 =>
                  NeutralizedOn(q_day - 1) <= Cardinality(ids(available) \ ids(active))

\* a day on which the clamp to the available set decides the count
C10_Witness ==
    /\ q_done
    /\ (3 * q_day) \div 100 > Len(available_targets(q_day)) - 5
    /\ Len(q_state.active_targets) = 5
    /\ Len(available_targets(q_day)) = Len(TARGET_POOL)

\* the ids of a list of targets
TargetIds(ts) == {ts[i][1] : i \in DOMAIN ts}

----------------------------------------------------------------------------
(* The six metric formulas of the Daily State, each applied to a day and to *)
(* every value its noise draw can take.  q_state holds the metric, the      *)
(* noise and the value computed.                                           *)

\* the values random.randint(a, b) of each metric's noise draw can return
NoiseRange ==
    [slm_strength        |-> -100..100,
     hnsf_readiness      |-> -5..5,
     corridor_threat     |-> -1..1,
     popular_support_gos |-> -3..3,
     tip_line_calls      |-> -5..10,
     amnesty_surrenders  |-> -2..3]

Measured(metric, noise, value) ==
    /\ pc = "metric"
    /\ ~q_done
    /\ q_done' = TRUE
    /\ q_state' = [day |-> q_day, metric |-> metric, noise |-> noise, value |-> value]
    /\ UNCHANGED <<twister, keep_bodies, rng, num_days, pc, day, state, frago_counter,
                   ccir_counter, pir_counter, roe_version, last_phase, total_docs,
                   day_docs, dirs_made, files, reported, execution, first_files, q_day,
                   q_phase, q_transition>>

MeasureSlmStrength ==
    \E n \in NoiseRange.slm_strength : Measured("slm_strength", n, slm_strength(q_day, n))

MeasureHnsfReadiness ==
    \E n \in NoiseRange.hnsf_readiness :
        Measured("hnsf_readiness", n, hnsf_readiness(q_day, n))

MeasureCorridorThreat ==
    \E n \in NoiseRange.corridor_threat :
        Measured("corridor_threat", n, corridor_threat(q_day, n))

MeasurePopularSupport ==
    \E n \in NoiseRange.popular_support_gos :
        Measured("popular_support_gos", n, popular_support_gos(q_day, n))

MeasureTipLineCalls ==
    \E n \in NoiseRange.tip_line_calls :
        Measured("tip_line_calls", n, tip_line_calls(q_day, n))

MeasureAmnestySurrenders ==
    \E n \in NoiseRange.amnesty_surrenders :
        Measured("amnesty_surrenders", n, amnesty_surrenders(q_day, n))

InitMetrics ==
    /\ twister = 0
    /\ keep_bodies = TRUE
    /\ RunIdle("metric")
    /\ q_day \in 0..MaxMetricDay
    /\ q_done = FALSE
    /\ q_phase = 0
    /\ q_transition = FALSE
    /\ q_state = NoState

NextMetrics ==
    \/ MeasureSlmStrength
    \/ MeasureHnsfReadiness
    \/ MeasureCorridorThreat
    \/ MeasurePopularSupport
    \/ MeasureTipLineCalls
    \/ MeasureAmnestySurrenders

SpecMetrics == InitMetrics /\ [][NextMetrics]_vars

\* the value measured for a metric
MetricIs(metric) == q_done /\ q_state.metric = metric

\* C12: the corridor threat score is between 1 and 10 inclusive for every day
\* d >= 0 and every value -1, 0, 1 of its noise draw.
C12_ThreatWithin1To10 ==
    MetricIs("corridor_threat") => q_state.value \in 1..10

\* C13: for every day d >= 0 and every noise value, opposing-force strength is
\* within 500..3100, partner-force readiness is at most 95, popular support is
\* at most 80, tip-line volume and cumulative defections are never negative.
C13_MetricBounds ==
    /\ MetricIs("slm_strength") => q_state.value >= 500 /\ q_state.value <= 3100
    /\ MetricIs("hnsf_readiness") => q_state.value <= 95
    /\ MetricIs("popular_support_gos") => q_state.value <= 80
    /\ MetricIs("tip_line_calls") => q_state.value >= 0
    /\ MetricIs("amnesty_surrenders") => q_state.value >= 0

\* a day late enough that the floor alone keeps the strength at 500
C13_Witness ==
    /\ MetricIs("slm_strength")
    /\ q_state.value = 500
    /\ 3000 - ((q_day * 65) \div 10) + q_state.noise < 500

\* C14: a run with --days N, N <= 0, is rejected before any generation begins:
\* no output directory is created, no document is saved and no completed
\* generation is reported.
C14_NonPositiveDaysRejected ==
    num_days <= 0 => ~dirs_made /\ files = <<>> /\ ~reported

\* the targets of day d absent from a Daily State's active list
NeutralizedIn(st) == TargetIds(available_targets(st.day)) \ TargetIds(st.active_targets)

\* C15: the neutralized set of day d is fixed by the seed 42 + d and the
\* catalog: every construction of the Daily State of d yields the same
\* neutralized set, whatever the shared stream holds at the call and whichever
\* days were derived before.
C15_NeutralizedSetFixedByDay ==
    q_done /\ state.day = q_day => NeutralizedIn(state) = NeutralizedIn(q_state)

\* the day's state constructed again under another state of the shared stream
C15_Witness ==
    /\ q_done
    /\ state.day = q_day
    /\ state.slm_strength # q_state.slm_strength
    /\ NeutralizedIn(q_state) # {}
    /\ NeutralizedIn(state) = NeutralizedIn(q_state)

\* the shared stream r after the metric and event draws of DailyState(d)
AmbientAfterDraws(d, r) == Skip(r, 6 + event_draws(d, Skip(r, 6)))

\* C16: constructing a Daily State leaves the shared stream as if the day-seeded
\* section had not run: it stands at the position reached by the construction's
\* metric and event draws, and later draws continue the ambient sequence there.
C16_AmbientStreamContinues ==
    [][(DeriveProbe \/ DeriveOther) => rng' = AmbientAfterDraws(state'.day, rng)]_vars

\* C17: the presentation order of the surviving targets is drawn from the
\* ambient stream, not from the day-seeded one: of the target derivation only
\* the choice of the neutralized set uses the stream seeded with 42 + day.
C17_ShuffleFromAmbientStream ==
    [][(DeriveProbe \/ DeriveOther) =>
          state'.active_targets =
              shuffle(AmbientAfterDraws(state'.day, rng),
                      surviving_targets(state'.day, seed(GLOBAL_SEED + state'.day)))]_vars

\* a document builder is called
BuilderCalled ==
    \/ BuildOpord
    \/ BuildRoe
    \/ BuildFrago
    \/ BuildAto
    \/ BuildAco
    \/ BuildJiptl
    \/ BuildCcir
    \/ BuildPir

\* C18: every document builder produces content that depends only on the Daily
\* State and the counters passed to it: no builder draws random numbers of its
\* own, and no builder changes the state of the shared random stream.
C18_BuildersLeaveStreamAlone ==
    [][BuilderCalled =>
          /\ rng' = rng
          /\ BuildFrago =>
                \A k \in 0..MaxDraws :
                    files'[1] = generate_frago(state, 1, Skip(seed(GLOBAL_SEED), k))]_vars

\* C19: a phase id without an entry in a builder's phase-keyed table makes that
\* builder fail immediately, and no builder substitutes another phase's entry:
\* so for the OPORD tables and equally for the CCIR and PIR requirement tables.
C19_MissingPhaseFails ==
    [][(BuildOpord \/ BuildCcir \/ BuildPir) /\ state.phase \notin DOMAIN PHASES =>
          files'[1].kind = "KeyError"]_vars

\* the counter run keeps for a kind
CounterOf(k) ==
    CASE k = "FRAGO" -> frago_counter
      [] k = "CCIR"  -> ccir_counter
      [] k = "PIR"   -> pir_counter
      [] k = "ROE"   -> roe_version

COUNTED_KINDS == {"FRAGO", "CCIR", "PIR", "ROE"}

\* each counter is the number of documents of its kind saved so far
C20_SerialInv ==
    \A k \in COUNTED_KINDS : CounterOf(k) = Cardinality(OfKind(k))

\* a step saves at most one document, after those already saved.  Saving one of
\* a counted kind raises that counter by one and gives the document the new
\* value, and no other step moves the counter; a FRAGO carries its day + 1, a
\* ROE and an OPORD the phase id of their day, a phase-change day
C20_SerialStep ==
    LET saved == Len(files') = Len(files) + 1
        doc   == files'[Len(files')]
    IN  /\ files' = files \/ (saved /\ files' = Append(files, doc))
        /\ \A k \in COUNTED_KINDS :
              IF saved /\ doc.kind = k
              THEN CounterOf(k)' = CounterOf(k) + 1 /\ doc.num = CounterOf(k)'
              ELSE CounterOf(k)' = CounterOf(k)
        /\ saved /\ doc.kind = "FRAGO" => doc.num = doc.day + 1 /\ doc.day = day
        /\ saved /\ doc.kind \in {"ROE", "OPORD"} =>
              /\ doc.num = get_phase(doc.day)
              /\ doc.day = day
              /\ PhaseChangeDay(doc.day)

\* C20: the FRAGO, CCIR, PIR and ROE counters start at 0, rise by exactly 1 on
\* each emission of their kind and never otherwise, so the k-th document of a
\* kind carries serial k; the FRAGO serial of day d is d + 1, and the ROE version
\* and OPORD number of a phase-change day equal that day's phase id.
C20_SerialsCountEmissions ==
    /\ (files = <<>> => \A k \in COUNTED_KINDS : CounterOf(k) = 0)
    /\ []C20_SerialInv
    /\ [][C20_SerialStep]_vars

\* the second ROE saved, on the first day of phase 2, when the CCIR and PIR
\* serials have fallen behind the day number
C20_Witness ==
    /\ state.day = PHASES[2].start
    /\ pc = "endday"
    /\ roe_version = 2
    /\ frago_counter = state.day + 1
    /\ ccir_counter < frago_counter
    /\ pir_counter = ccir_counter
    /\ pir_counter > 1
    /\ files[Len(files)].kind = "PIR"
    /\ files[Len(files)].num = pir_counter

\* the <<serial, day>> pairs of the saved documents of kind k
Issued(k) == {<<files[j].num, files[j].day>> : j \in OfKind(k)}

\* the OPORD numbered n was saved before the i-th document
OpordBefore(n, i) == \E j \in OfKind("OPORD") : j < i /\ files[j].num = n

\* C21: every serial a document cites names a document of the same run: the
\* FRAGO of day d cites ATO, ACO and JIPTL d + 1, the serials of the ATO, ACO and
\* JIPTL saved on day d; the FRAGO and ATO of day d cite OPORD phase(d), an OPORD
\* of phase p > 1 cites OPORD p - 1, and each cited OPORD was saved earlier in
\* the run than the citing document.
C21_CitedSerialsExist ==
    \A i \in DOMAIN files :
        LET f        == files[i]
            finished == f.day < day \/ pc = "done"
        IN  /\ f.kind = "FRAGO" =>
                  /\ f.body.ato = f.day + 1
                  /\ f.body.aco = f.day + 1
                  /\ f.body.jiptl = f.day + 1
                  /\ finished =>
                        /\ <<f.body.ato, f.day>> \in Issued("ATO")
                        /\ <<f.body.aco, f.day>> \in Issued("ACO")
                        /\ <<f.body.jiptl, f.day>> \in Issued("JIPTL")
            /\ f.kind = "ATO" =>
                  /\ f.body.aco = f.day + 1
                  /\ finished => <<f.body.aco, f.day>> \in Issued("ACO")
            /\ f.kind \in {"FRAGO", "ATO"} =>
                  /\ f.body.opord = get_phase(f.day)
                  /\ OpordBefore(f.body.opord, i)
            /\ f.kind = "OPORD" =>
                  IF f.num > 1
                  THEN f.body.prior_opord = f.num - 1 /\ OpordBefore(f.num - 1, i)
                  ELSE f.body.prior_opord = 0

\* a finished run in which the OPORD of phase 2 cites the OPORD of phase 1
C21_Witness ==
    /\ pc = "done"
    /\ \E i \in OfKind("OPORD") : files[i].body.prior_opord = 1 /\ OpordBefore(1, i)
    /\ \E i \in OfKind("FRAGO") :
          files[i].body.opord = 2 /\ <<files[i].body.ato, files[i].day>> \in Issued("ATO")

\* the files in the directory of kind k: the names saved there so far
Directory(k) == {files[i].fname : i \in OfKind(k)}

\* a finished run leaves in each directory one file per document of the kind
C22_DirectoryInv ==
    pc = "done" => \A k \in KINDS : Cardinality(Directory(k)) = Cardinality(OfKind(k))

\* a document is saved under a name no earlier document of the run has
C22_SaveStep ==
    Len(files') > Len(files) =>
        \A i \in (Len(files) + 1)..Len(files') : \A j \in 1..(i - 1) :
            files'[j].fname # files'[i].fname

\* C22: within one run no two saved documents of the same kind get the same
\* file name, for any N: no document overwrites an earlier one and, starting from
\* empty directories, each kind's directory ends with as many files as documents
\* of that kind were saved.
C22_FileNamesUnique == []C22_DirectoryInv /\ [][C22_SaveStep]_vars

\* the second OPORD and ROE and the later CCIRs of a run, each under its own name
C22_Witness ==
    /\ state.day = PHASES[2].start
    /\ pc = "endday"
    /\ Cardinality(Directory("OPORD")) = 2
    /\ Cardinality(Directory("ROE")) = 2
    /\ Cardinality(Directory("CCIR")) = ccir_counter
    /\ ccir_counter > 10
    /\ Cardinality(Directory("FRAGO")) = state.day + 1

\* the catalog events whose window [trigger_min, trigger_max] contains day d
InWindowOn(d) == {e \in Range(EVENTS_POOL) : e[1] <= d /\ d <= e[2]}

\* C23: for every day d the candidate events are exactly the catalog events
\* whose window contains d; with no candidate (day 0) the selected list is
\* empty, otherwise the selected events are min(|candidates|, k) distinct
\* candidates with k in 1..3: between 1 and 3 events, each with d in its window.
C23_EventsSampledFromWindow ==
    q_done =>
        LET cands    == candidate_events(q_day)
            selected == q_state.events
        IN  /\ Range(cands) = InWindowOn(q_day)
            /\ Len(cands) = Cardinality(InWindowOn(q_day))
            /\ Cardinality(Range(selected)) = Len(selected)
            /\ Range(selected) \subseteq InWindowOn(q_day)
            /\ IF InWindowOn(q_day) = {}
               THEN selected = <<>>
               ELSE /\ \E k \in 1..3 : Len(selected) = Min(Len(cands), k)
                    /\ Len(selected) \in 1..3
            /\ q_state.event_texts = [i \in DOMAIN selected |-> selected[i][3]]
            /\ q_day = 0 => selected = <<>>

\* a day with more candidates than the three events selected
C23_Witness ==
    /\ q_done
    /\ Len(q_state.events) = 3
    /\ Cardinality(InWindowOn(q_day)) > 3

\* C24: the mission list of a day is k ISR missions over k distinct areas, k in
\* 4..7, then one MEDEVAC and one AIRLIFT mission in that order, then one more
\* support mission iff the phase is 3 or 4; the mission numbers are ATO-001,
\* ATO-002, ... in list order; so 6 to 9 missions in phases 1-2, 7 to 10 in 3-4.
C24_MissionList ==
    q_done =>
        LET m     == q_state.ato_missions
            late  == q_state.phase \in {3, 4}
            extra == IF late THEN 1 ELSE 0
        IN  /\ \E k \in 4..7 :
                  /\ Len(m) = k + 2 + extra
                  /\ \A i \in 1..k : m[i].msn_type = "ISR" /\ m[i].target_area \in Range(ISR_AREAS)
                  /\ Cardinality({m[i].target_area : i \in 1..k}) = k
                  /\ m[k + 1].msn_type = "MEDEVAC"
                  /\ m[k + 2].msn_type = "AIRLIFT"
                  /\ late => m[k + 3].msn_type \in {"INFILTRATION", "ASSAULT SUPPORT"}
            /\ \A i \in DOMAIN m :
                  m[i].msn_num = <<"ATO-", "0", IF i < 10 THEN "0" ELSE "1",
                                   IF i < 10 THEN Digits(i)[1] ELSE "0">>
            /\ Len(m) \in (IF late THEN 7..10 ELSE 6..9)

\* a day of phase 3 or 4 with seven ISR areas: ten missions, the last ATO-010
C24_Witness ==
    /\ q_done
    /\ q_state.phase >= 3
    /\ Len(q_state.ato_missions) = 10
    /\ q_state.ato_missions[10].msn_num = <<"ATO-", "0", "1", "0">>
    /\ q_state.ato_missions[8].msn_type = "MEDEVAC"

\* C25: every ISR mission's time-on-target window starts before it ends and
\* lies inside the day's effective window: it starts no earlier than the day's
\* effective timestamp and ends no later than the end-of-window timestamp
\* (effective + 18 hours), for every draw of start hour and duration.
C25_IsrWindowInsideDay ==
    q_done =>
        \A i \in DOMAIN q_state.ato_missions :
            LET m == q_state.ato_missions[i]
            IN  m.msn_type = "ISR" =>
                    /\ m.tot[1] < m.tot[2]
                    /\ q_state.eff <= m.tot[1]
                    /\ m.tot[2] <= q_state.end
                    /\ q_state.end = q_state.eff + 18

----------------------------------------------------------------------------
(* C26 *)

\* the unit-specific line of each impact tag that has one
C26_UnitLine ==
    [tag \in {"CONTACT", "SABOTAGE", "INTEL", "INTERDICTION", "INFO", "CUAS",
              "CYBER", "CLEARING", "CIVIL"} |->
        CASE tag = "CONTACT" -> <<"SOTF-K: Increase CSG patrol frequency in sector of contact. Surge ISR to affected area.">>
          [] tag = "SABOTAGE" -> <<"SOTF-K: Coordinate with HNSF engineers for rapid repair. Adjust CSG patrol pattern to cover vulnerability.">>
          [] tag = "INTEL" -> <<"J-2: Develop intelligence lead. Nominate for ISR collection on next ATO cycle.">>
          [] tag = "INTERDICTION" -> <<"SOTF-B: Exploit captured material. Update border interdiction priorities.">>
          [] tag = "INFO" -> <<"MISTF: Develop counter-narrative. Coordinate with Radio Solara Libre for broadcast.">>
          [] tag = "CUAS" -> <<"J-3: Review CUAS posture at all FOBs. Report hostile UAS characteristics to J-2 for analysis.">>
          [] tag = "CYBER" -> <<"J-6/DCO: Elevate network monitoring. Implement recommended OPSEC changes.">>
          [] tag = "CLEARING" -> <<"SOTF-C: Exploit site for intelligence. Coordinate with J-2 for detainee processing via HNSF.">>
          [] tag = "CIVIL" -> <<"CATF: Continue engagement. Report atmospherics to J-2 and MISTF.">>]

C26_GenericLine(st) == <<"All units: Continue Phase ", st.phase_label, " operations as directed.">>

C26_IsNoChangesLine(line) == line[1] = "No changes. Continue Phase "

\* C26: the FRAGO of a day lists one task-change line per selected event, in
\* event order: the unit-specific line of the event's impact tag for the nine
\* tags that have one, the generic "All units" line for every other tag; with
\* no selected event it lists the single "No changes" line; so every FRAGO has
\* between 1 and 3 task-change lines.
C26_TaskChangePerEvent ==
    (pc = "brief" /\ files # <<>>) =>
        LET tc == files[1].body.task_changes
            ev == state.events
        IN  /\ Len(tc) \in 1..3
            /\ IF ev = <<>>
               THEN Len(tc) = 1 /\ C26_IsNoChangesLine(tc[1])
               ELSE /\ Len(tc) = Len(ev)
                    /\ \A i \in 1..Len(ev) :
                          tc[i] = IF ev[i][4] \in DOMAIN C26_UnitLine
                                  THEN C26_UnitLine[ev[i][4]]
                                  ELSE C26_GenericLine(state)

\* a FRAGO of three selected events, one with a unit-specific line, a CIVIL
\* one and one with the generic line
C26_Witness ==
    /\ pc = "brief"
    /\ files # <<>>
    /\ Len(state.events) = 3
    /\ \E i, j \in 1..3 :
          /\ state.events[i][4] = "CIVIL"
          /\ state.events[j][4] \notin DOMAIN C26_UnitLine
          /\ files[1].body.task_changes[j] = C26_GenericLine(state)

\* a FRAGO of a day without selected events
C26_WitnessNoEvents ==
    /\ pc = "brief"
    /\ files # <<>>
    /\ state.events = <<>>
    /\ Len(files[1].body.task_changes) = 1

----------------------------------------------------------------------------
(* C27 *)

\* C27: jitter_mgrs never raises; a coordinate string with fewer than four
\* fields, or whose third or fourth field int() does not accept, comes back
\* unchanged; a well-formed one keeps its first two fields and gets an easting
\* and a northing each within 50 of the original value.
C27_JitterTotalAndClose ==
    (pc = "jitter" /\ q_done) =>
        LET m   == q_state.base_mgrs
            out == q_state.result
        IN  /\ ~q_state.raised
            /\ IF Len(m) < 4 \/ ValueError(m[3]) \/ ValueError(m[4])
               THEN out = m
               ELSE /\ Len(out) = 4
                    /\ out[1] = m[1]
                    /\ out[2] = m[2]
                    /\ ~ValueError(out[3])
                    /\ ~ValueError(out[4])
                    /\ int(out[3]) - int(m[3]) \in -50..50
                    /\ int(out[4]) - int(m[4]) \in -50..50

\* a well-formed five-field string whose easting moved below zero
C27_Witness ==
    /\ pc = "jitter"
    /\ q_done
    /\ Len(q_state.base_mgrs) = 5
    /\ ~ValueError(q_state.base_mgrs[3])
    /\ ~ValueError(q_state.base_mgrs[4])
    /\ int(q_state.result[3]) < 0
    /\ int(q_state.result[4]) # int(q_state.base_mgrs[4])

\* a four-field string whose easting is an integer and whose northing is not
C27_WitnessMalformed ==
    /\ pc = "jitter"
    /\ q_done
    /\ Len(q_state.base_mgrs) = 4
    /\ ~ValueError(q_state.base_mgrs[3])
    /\ ValueError(q_state.base_mgrs[4])
    /\ q_state.result = q_state.base_mgrs
    /\ rng.pos > 0

----------------------------------------------------------------------------
(* C28 *)

\* run constructs the Daily State of the next day
C28_Constructs == pc = "loop" /\ pc' = "opord"

\* the noise of the six metrics and the event-sample size drawn from the
\* stream random.seed(42) leaves
C28_FirstDraws ==
    LET r == seed(GLOBAL_SEED)
    IN  [slm_strength        |-> randint(r, -100, 100),
         hnsf_readiness      |-> randint(Skip(r, 1), -5, 5),
         corridor_threat     |-> randint(Skip(r, 2), -1, 1),
         popular_support_gos |-> randint(Skip(r, 3), -3, 3),
         tip_line_calls      |-> randint(Skip(r, 4), -5, 10),
         amnesty_surrenders  |-> randint(Skip(r, 5), -2, 3),
         sample_size         |-> randint(Skip(r, 6), 1, 3)]

C28_ConstructStep ==
    C28_Constructs =>
        /\ rng = seed(GLOBAL_SEED)
        /\ rng.pos = 0
        /\ state' = DailyState(day, seed(GLOBAL_SEED))
        /\ state'.slm_strength = slm_strength(day, C28_FirstDraws.slm_strength)
        /\ state'.hnsf_readiness = hnsf_readiness(day, C28_FirstDraws.hnsf_readiness)
        /\ state'.corridor_threat = corridor_threat(day, C28_FirstDraws.corridor_threat)
        /\ state'.popular_support_gos
               = popular_support_gos(day, C28_FirstDraws.popular_support_gos)
        /\ state'.tip_line_calls = tip_line_calls(day, C28_FirstDraws.tip_line_calls)
        /\ state'.amnesty_surrenders
               = amnesty_surrenders(day, C28_FirstDraws.amnesty_surrenders)
        /\ Len(state'.events)
               = Min(Len(candidate_events(day)), C28_FirstDraws.sample_size)
        /\ (state # NoState /\ state.day = day - 1) =>
               state'.slm_strength <= state.slm_strength

\* C28: in run every Daily State construction, on day 0 and on every later
\* day, begins with the shared stream as random.seed(42) left it, no draw
\* consumed; so the noise of the six metrics and the event-sample size are the
\* same on every day, the Daily State of a day depends on the day number only,
\* and opposing-force strength never increases from one day to the next.
C28_EveryDayFromSeed42 ==
    /\ [](pc = "loop" => rng = seed(GLOBAL_SEED))
    /\ [][C28_ConstructStep]_vars

\* the Daily State of a later day, constructed after the FRAGO of the day
\* before drew from the stream, with a lower strength than the day before
C28_Witness ==
    /\ pc = "opord"
    /\ state.day = 7
    /\ rng = seed(GLOBAL_SEED)
    /\ OfKindOn("FRAGO", 6) # {}
    /\ state.slm_strength = slm_strength(7, C28_FirstDraws.slm_strength)
    /\ state.slm_strength < slm_strength(6, C28_FirstDraws.slm_strength)

----------------------------------------------------------------------------
(* C29 *)

\* C29: on every day of a run the FRAGO announces an updated CCIR exactly when
\* a CCIR document is emitted on that day, and says "No change to CCIR." exactly
\* when none is emitted.
C29_FragoAnnouncesCcir ==
    pc = "endday" =>
        \A i \in OfKindOn("FRAGO", state.day) :
            files[i].body.ccir_updated <=> (OfKindOn("CCIR", state.day) # {})

----------------------------------------------------------------------------
(* C30 *)

\* C30: neutralization is permanent across the days of a run: a target
\* neutralized on day d (available but absent from active_targets) is absent
\* from active_targets, and so from the JIPTL, on every later day; here for
\* each day and the day after it.
C30_NeutralizedStaysOut ==
    [][(pc = "loop" /\ pc' = "opord" /\ state # NoState /\ state.day < day) =>
          NeutralizedIn(state) \cap TargetIds(state'.active_targets) = {}]_vars

====
